---- MODULE Spec2Model ----
(***************************************************************************)
(* plap: validation of named, repeatable arguments and groups against a    *)
(* declarative schema.  The repository holds several generations of the    *)
(* same engine; each one is modelled from its own source:                  *)
(*                                                                         *)
(*   "core"    core/src/runtime.rs    RuntimeChecker::check                *)
(*   "checker" src/src/checker.rs     check  (resolver + rule lists)       *)
(*   "runtime" src/src/runtime.rs     Runtime::finish                      *)
(*   "shared"  shared/src/runtime.rs  Runtime::finish                      *)
(*   "slim"    slim/src/checker.rs    Checker, driven as by                *)
(*             macros/src/define_args.rs check_attrs                       *)
(*                                                                         *)
(* A behaviour is one program (impl) with one schema: occurrences are      *)
(* recorded, a validation is run, and its returned value is kept in        *)
(* `result` until the next operation.                                      *)
(*                                                                         *)
(* Ids are the 0-based indices of the source; a Vec is a sequence, so the  *)
(* entry of id i is entries[i + 1].                                        *)
(***************************************************************************)
EXTENDS Integers, Sequences, FiniteSets, TLC

\* Largest number of occurrences recorded in one behaviour.
MaxSpans == 3

\* Longest list of names given to a formatter.
MaxArgs == 4

\* Largest number of entries one pass flags as not allowed.
MaxUnexpected == 1

\* ------------------------------------------------------------------------
\* Helpers on sequences
\* ------------------------------------------------------------------------

RECURSIVE Concat(_)
\* Iterator::flat_map / extend: the concatenation of a sequence of sequences.
Concat(ss) ==
    IF ss = <<>> THEN <<>> ELSE Head(ss) \o Concat(Tail(ss))

Range(s) == {s[i] : i \in DOMAIN s}

\* A sequence without its element at position k (members[..i] chained with
\* members[i + 1..]).
Without(s, k) == SubSeq(s, 1, k - 1) \o SubSeq(s, k + 1, Len(s))

\* ------------------------------------------------------------------------
\* Schema entries (core/src/arg.rs ArgState, core/src/group.rs GroupState)
\* ------------------------------------------------------------------------

\* ArgState::new with the builder's setters applied.
Arg(action, required, requires, conflicts) ==
    [kind |-> "Arg", action |-> action, required |-> required,
     multiple |-> FALSE, members |-> <<>>,
     requires |-> requires, conflicts |-> conflicts]

\* GroupState::new with the builder's setters applied.
Group(members, required, multiple, requires, conflicts) ==
    [kind |-> "Group", action |-> "Append", required |-> required,
     multiple |-> multiple, members |-> members,
     requires |-> requires, conflicts |-> conflicts]

ArgAction == {"Set", "Append"}

\* An edge list holding at most one target.
Edge(from, targets) == {<<>>} \cup {<<t>> : t \in targets \ {from}}

\* Two arguments with every combination of action, required flag, and at
\* most one requires and one conflicts edge each.
TwoArgs ==
    { << Arg(a0, r0, q0, c0), Arg(a1, r1, q1, c1) >> :
        a0 \in ArgAction, a1 \in ArgAction, r0 \in BOOLEAN, r1 \in {FALSE},
        q0 \in Edge(0, {1}), c0 \in Edge(0, {1}),
        q1 \in Edge(1, {0}), c1 \in Edge(1, {0}) }

\* Two arguments and a group over them (in either order, or over one only),
\* with the group's flags and one optional edge from or to the group.
GroupEdges ==
    { [q0 |-> <<>>, c0 |-> <<>>, q2 |-> <<>>, c2 |-> <<>>],
      [q0 |-> <<2>>, c0 |-> <<>>, q2 |-> <<>>, c2 |-> <<>>],
      [q0 |-> <<>>, c0 |-> <<2>>, q2 |-> <<>>, c2 |-> <<>>],
      [q0 |-> <<>>, c0 |-> <<>>, q2 |-> <<1>>, c2 |-> <<>>],
      [q0 |-> <<>>, c0 |-> <<>>, q2 |-> <<>>, c2 |-> <<1>>] }

OneGroup ==
    { << Arg("Append", FALSE, e.q0, e.c0), Arg(a1, FALSE, <<>>, <<>>),
         Group(m, r, mu, e.q2, e.c2) >> :
        a1 \in ArgAction,
        m \in {<<0, 1>>, <<1, 0>>, <<0>>},
        r \in BOOLEAN, mu \in BOOLEAN, e \in GroupEdges }

\* Three arguments in one group.
ThreeInGroup ==
    { << Arg("Append", FALSE, <<>>, <<>>), Arg("Append", FALSE, <<>>, <<>>),
         Arg("Append", FALSE, <<>>, <<>>), Group(<<0, 1, 2>>, r, mu, <<>>, <<>>) >> :
        r \in BOOLEAN, mu \in BOOLEAN }

\* An argument that requires a group of two other arguments.
RequiresGroup ==
    { << Arg("Append", FALSE, <<3>>, <<>>), Arg("Append", FALSE, <<>>, <<>>),
         Arg("Append", FALSE, <<>>, <<>>), Group(<<1, 2>>, FALSE, mu, <<>>, <<>>) >> :
        mu \in BOOLEAN }

\* A group nested in a group, and an argument shared by two groups that are
\* themselves members of a third (diamond).
Nested ==
    { << Arg("Append", FALSE, <<>>, <<>>), Arg("Append", FALSE, <<>>, <<>>),
         Group(<<1>>, FALSE, mu, <<>>, <<>>), Group(m, r, mu, <<>>, <<>>) >> :
        m \in {<<0, 2>>, <<2, 0>>}, r \in BOOLEAN, mu \in BOOLEAN }
    \cup
    { << Arg("Append", FALSE, <<>>, <<>>),
         Group(<<0>>, FALSE, TRUE, <<>>, <<>>), Group(<<0>>, FALSE, TRUE, <<>>, <<>>),
         Group(m, r, TRUE, <<>>, <<>>) >> :
        m \in {<<1, 2>>, <<2, 1>>}, r \in BOOLEAN }

\* Circular membership: two groups listing each other, a group listing
\* itself, with an argument beside them.
Circular ==
    { << Arg("Append", FALSE, <<>>, <<>>),
         Group(m1, r, mu, <<>>, <<>>), Group(m2, FALSE, mu, <<>>, <<>>) >> :
        m1 \in {<<2>>, <<0, 2>>, <<2, 0>>}, m2 \in {<<1>>, <<0, 1>>},
        r \in BOOLEAN, mu \in BOOLEAN }
    \cup
    { << Arg("Append", FALSE, <<>>, <<>>), Group(m, r, mu, <<>>, <<>>) >> :
        m \in {<<1>>, <<0, 1>>}, r \in BOOLEAN, mu \in BOOLEAN }

Schemas ==
    TwoArgs \cup OneGroup \cup ThreeInGroup \cup RequiresGroup \cup Nested \cup Circular

Impls == {"core", "checker", "runtime", "shared", "slim"}

VARIABLES
    impl,       \* which generation of the engine this behaviour runs
    entries,    \* the schema: Vec<State>, one entry per Id
    sources,    \* per Id, the spans of its recorded occurrences, in order
    help_spans, \* the spans of the help marker's occurrences (checker)
    nextSpan,   \* the location of the next occurrence in the input
    errors,     \* the pending errors of the slim Checker (Checker::errors)
    default_spans, \* the default spans of the slim Checker (Checker::spans)
    reported,   \* the result of the pass before the last reset (slim driver)
    result,     \* the value returned by the last validation, if any
    unexpected, \* the Ids flagged as not allowed, in the order flagged
    message,    \* a list of names given to a default formatter and its text
    builder,    \* the schema under construction: name -> Id map and entry table
    resolver,   \* the position of check in its first loop and Parser::values' states
    memo,       \* RuntimeChecker::supplied of every checker built so far (core)
    stream      \* the token stream of a front-end parser and what it did so far

vars == <<impl, entries, sources, help_spans, nextSpan, errors, default_spans,
          reported, result, unexpected, builder, message, resolver, memo, stream>>

\* No token stream: the pass is fed by calls, not by a front-end parser.
NoStream == [gen |-> "none"]

\* ------------------------------------------------------------------------
\* Diagnostics and their aggregation
\* ------------------------------------------------------------------------

\* Runtime::node / Errors::span / Span::call_site(): the anchor location of
\* the pass; occurrence spans are 1, 2, ...
node == 0

\* One diagnostic: its kind, its location and the entry names it lists.
\* The generations name the kinds differently (MissingArgument,
\* MissingRequired, "requires `..`" / "`..` is required"; ArgConflict,
\* ConflictingArgument; DuplicateArg, DuplicateValue, "value is duplicated");
\* the model uses one vocabulary.
Diag(kind, at, names) == [kind |-> kind, at |-> at, names |-> names]

\* The marker of a recursion that never returns (stack exhaustion).
Overflow == Diag("Overflow", node, <<>>)

None == [some |-> FALSE, msgs |-> <<>>]
Some(msgs) == [some |-> TRUE, msgs |-> msgs]

\* syn::Error::combine: the messages of `err` are appended to those of `e`.
combine(e, err) == e \o err

\* A faulty aggregation that keeps the first error only.
error_syn_first(error, err) ==
    IF error.some THEN error ELSE Some(err)

\* RuntimeChecker::error_syn, Errors::add, ErrorCollector::combine.
error_syn(error, err) ==
    IF error.some THEN Some(combine(error.msgs, err)) ELSE Some(err)

RECURSIVE add_all(_, _)
\* The aggregator after the diagnostics `ds` were added one by one.
add_all(error, ds) ==
    IF ds = <<>> THEN error
    ELSE add_all(error_syn(error, <<Head(ds)>>), Tail(ds))

\* self.error.map(Err).unwrap_or(Ok(())), Errors::fail, error.take().map_or.
fail(error) ==
    IF error.some THEN [status |-> "err", diags |-> error.msgs]
    ELSE [status |-> "ok", diags |-> <<>>]

NoResult == [status |-> "none", diags |-> <<>>]
Aborted(why) == [status |-> why, diags |-> <<>>]

\* The outcome of a validation that emitted `ds` in order: an abort if a
\* recursion did not return, else the aggregate.
Outcome(ds) ==
    IF \E k \in DOMAIN ds : ds[k].kind = "Overflow" THEN Aborted("overflow")
    ELSE fail(add_all(None, ds))

\* ------------------------------------------------------------------------
\* core/src/runtime.rs
\* ------------------------------------------------------------------------

\* Runtime::state: the entry of an Id.
state(es, id) == es[id + 1]

\* The spans recorded for an Id (ArgState::sources).
spans(src, id) == src[id + 1]

Ids(es) == 0 .. (Len(es) - 1)

\* The arg-list marker of a traversal that never returns.
Diverge == 0 - 1

RECURSIVE visit_args_impl(_, _, _)
\* Runtime::visit_args: the arguments under an entry, a group's members in
\* order and nested groups in place.  `path` holds the groups being visited:
\* meeting one of them again repeats the same call for ever.
visit_args_impl(es, id, path) ==
    IF state(es, id).kind = "Arg" THEN <<id>>
    ELSE IF id \in path THEN <<Diverge>>
    ELSE Concat([k \in DOMAIN state(es, id).members |->
                    visit_args_impl(es, state(es, id).members[k], path \cup {id})])

visit_args(es, id) == visit_args_impl(es, id, {})

RECURSIVE check_supplied_impl(_, _, _, _)
RECURSIVE all_supplied(_, _, _, _)
\* Iterator::all over a group's members: stops at the first member that is
\* not supplied.
all_supplied(es, src, ms, path) ==
    IF ms = <<>> THEN "true"
    ELSE LET r == check_supplied_impl(es, src, Head(ms), path)
         IN  IF r = "true" THEN all_supplied(es, src, Tail(ms), path) ELSE r

\* check_supplied inside RuntimeChecker::supplied: "true", "false", or
\* "overflow" when the recursion over circular groups never returns.
check_supplied_impl(es, src, id, path) ==
    IF state(es, id).kind = "Arg"
    THEN IF spans(src, id) # <<>> THEN "true" ELSE "false"
    ELSE IF id \in path THEN "overflow"
    ELSE all_supplied(es, src, state(es, id).members, path \cup {id})

\* A runtime that hands the memo of its last checker to the next one.
kept_supplied(memos, es) ==
    IF memos = <<>> THEN [k \in DOMAIN es |-> "none"] ELSE memos[Len(memos)]

\* Runtime::check: every call builds a RuntimeChecker whose memo is
\* vec![None; self.states.len()], whatever the checkers before it (`memos`,
\* each as it was when dropped) held.
fresh_supplied(memos, es) == [k \in DOMAIN es |-> "none"]

\* RuntimeChecker::supplied: self.supplied[id].get_or_insert_with(..), the
\* stored answer when there is one, else what check_supplied returns.  `m`
\* is the memo the checker was built with: the answers stored during the
\* run are those check_supplied gives for the same sources.
supplied(m, es, src, id) ==
    IF m[id + 1] # "none" THEN m[id + 1] ELSE check_supplied_impl(es, src, id, {})

\* The entries RuntimeChecker::check asks `supplied` about: the required
\* ones, the members of a group that is not multiple and has another
\* member, and the targets of the requires and conflicts lists.
asked(es) ==
    {id \in 0 .. (Len(es) - 1) : es[id + 1].required}
    \cup UNION {Range(es[k].members) : k \in {j \in DOMAIN es :
            es[j].kind = "Group" /\ ~es[j].multiple /\ Len(es[j].members) >= 2}}
    \cup UNION {Range(es[k].requires) \cup Range(es[k].conflicts) : k \in DOMAIN es}

\* The memo of a checker when check returns.
stored_supplied(m, es, src) ==
    [k \in DOMAIN es |-> IF (k - 1) \in asked(es) THEN supplied(m, es, src, k - 1) ELSE m[k]]

\* RuntimeChecker::collect_args: the names of the arguments under an entry.
collect_args(es, id) == visit_args(es, id)

\* One diagnostic of `kind` listing the arguments under `id` at every node;
\* the list is collected first, whatever the number of nodes.
at_nodes(es, kind, nodes, id) ==
    LET args == collect_args(es, id)
    IN  IF Diverge \in Range(args) THEN <<Overflow>>
        ELSE [k \in DOMAIN nodes |-> Diag(kind, nodes[k], args)]

\* RuntimeChecker::missing_argument.
missing_argument(es, nodes, id) == at_nodes(es, "MissingRequired", nodes, id)

\* RuntimeChecker::conflicting_argument.
conflicting_argument(es, nodes, id) == at_nodes(es, "ConflictingArgument", nodes, id)

\* rt.visit_args(state, |arg| f(&arg.sources, target)) for a target entry.
for_args(es, src, id, kind, target) ==
    LET args == visit_args(es, id)
    IN  Concat([k \in DOMAIN args |->
                  IF args[k] = Diverge THEN <<Overflow>>
                  ELSE at_nodes(es, kind, spans(src, args[k]), target)])

\* A check that never misses a required entry.
core_required_never(m, es, src, id) == <<>>

\* "A required argument must be supplied" / "All members of a required
\* group must be supplied".
core_required(m, es, src, id) ==
    IF ~state(es, id).required THEN <<>>
    ELSE LET s == supplied(m, es, src, id)
         IN  IF s = "overflow" THEN <<Overflow>>
             ELSE IF s = "false" THEN missing_argument(es, <<node>>, id)
             ELSE <<>>

\* A value count that is limited to one whatever the action.
core_duplicate_any(es, src, id) ==
    IF Len(spans(src, id)) > 1
    THEN [k \in DOMAIN spans(src, id) |-> Diag("DuplicateValue", spans(src, id)[k], <<>>)]
    ELSE <<>>

\* An error at every occurrence but the first.
duplicate_rest(es, src, id) ==
    IF state(es, id).action = "Set" /\ Len(spans(src, id)) > 1
    THEN [k \in 1 .. (Len(spans(src, id)) - 1) |->
            Diag("DuplicateValue", spans(src, id)[k + 1], <<>>)]
    ELSE <<>>

\* "Validate value count": an error at every occurrence of the argument.
core_duplicate(es, src, id) ==
    IF state(es, id).action = "Set" /\ Len(spans(src, id)) > 1
    THEN [k \in DOMAIN spans(src, id) |-> Diag("DuplicateValue", spans(src, id)[k], <<>>)]
    ELSE <<>>

\* The rule of one target of an edge list: nothing unless supplied(target)
\* is `when`, else `kind` at every occurrence of every argument under id.
edge_rule(m, es, src, id, target, when, kind) ==
    LET s == supplied(m, es, src, target)
    IN  IF s = "overflow" THEN <<Overflow>>
        ELSE IF s # when THEN <<>>
        ELSE for_args(es, src, id, kind, target)

\* A group rule that reports a conflict on the earlier member of a pair only.
core_exclusive_first(m, es, src, id) ==
    LET grp == state(es, id)
    IN  IF grp.multiple THEN <<>>
        ELSE Concat([i \in DOMAIN grp.members |->
               LET rest == SubSeq(grp.members, i + 1, Len(grp.members))
               IN  Concat([j \in DOMAIN rest |->
                      edge_rule(m, es, src, grp.members[i], rest[j],
                                "true", "ConflictingArgument")])])

\* "Arguments in a single-member group conflict with each other."
core_exclusive(m, es, src, id) ==
    LET grp == state(es, id)
    IN  IF grp.multiple THEN <<>>
        ELSE Concat([i \in DOMAIN grp.members |->
               Concat([j \in DOMAIN Without(grp.members, i) |->
                  edge_rule(m, es, src, grp.members[i], Without(grp.members, i)[j],
                            "true", "ConflictingArgument")])])

\* A requirement reported once at the node instead of at the occurrences.
core_requires_node(m, es, src, id) ==
    Concat([k \in DOMAIN state(es, id).requires |->
              IF supplied(m, es, src, state(es, id).requires[k]) = "false"
              THEN missing_argument(es, <<node>>, state(es, id).requires[k])
              ELSE <<>>])

\* "Check for missing requirements."
core_requires(m, es, src, id) ==
    Concat([k \in DOMAIN state(es, id).requires |->
              edge_rule(m, es, src, id, state(es, id).requires[k], "false", "MissingRequired")])

\* "Check for conflicting arguments/groups."
core_conflicts(m, es, src, id) ==
    Concat([k \in DOMAIN state(es, id).conflicts |->
              edge_rule(m, es, src, id, state(es, id).conflicts[k], "true", "ConflictingArgument")])

\* The body of the loop of RuntimeChecker::check for one entry.
core_entry(m, es, src, id) ==
    (IF state(es, id).kind = "Arg"
     THEN core_required(m, es, src, id) \o core_duplicate(es, src, id)
     ELSE core_required(m, es, src, id) \o core_exclusive(m, es, src, id))
    \o core_requires(m, es, src, id) \o core_conflicts(m, es, src, id)

\* A check that walks the states from the last Id to the first.
core_diags_descending(m, es, src) ==
    Concat([k \in DOMAIN es |-> core_entry(m, es, src, Len(es) - k)])

\* RuntimeChecker::check: the diagnostics in the order they are emitted.
core_diags(m, es, src) ==
    Concat([k \in DOMAIN es |-> core_entry(m, es, src, k - 1)])

\* Runtime::check.
core_check(m, es, src) == Outcome(core_diags(m, es, src))

\* ------------------------------------------------------------------------
\* src/src/checker.rs (and its twin src/src/validate.rs)
\* ------------------------------------------------------------------------

\* ValueState::from_n.
from_n(n) ==
    IF n = 0 THEN "Empty" ELSE IF n = 1 THEN "Provided" ELSE "ProvidedMany"

\* ValueState::provided: Provided or ProvidedMany (the discriminant is at
\* least that of Provided).
state_provided(st) == st \in {"Provided", "ProvidedMany"}

RECURSIVE update_state(_, _, _, _)
\* Checker::update_state.  `busy` is the set of groups whose state is Busy,
\* i.e. the groups on the call stack; the result is the state stored for i,
\* or "panic" for `found circular groups`.  A group's n counts its provided
\* members, all of which are visited.
update_state(es, src, i, busy) ==
    IF state(es, i).kind = "Arg" THEN from_n(Len(spans(src, i)))
    ELSE IF i \in busy THEN "panic"
    ELSE LET ms == state(es, i).members
             st == [k \in DOMAIN ms |-> update_state(es, src, ms[k], busy \cup {i})]
         IN  IF \E k \in DOMAIN st : st[k] = "panic" THEN "panic"
             ELSE from_n(Cardinality({k \in DOMAIN st : state_provided(st[k])}))

\* "update state of each argument or group".
update_all(es, src) == [k \in DOMAIN es |-> update_state(es, src, k - 1, {})]

\* The same resolution one call at a time.  `values` holds Value::state of
\* every index, `i` is the index of the loop of check, and `stack` holds one
\* frame per group whose member loop is running: the group, the position of
\* its next member and its count n.
Frame(i) == [i |-> i, k |-> 1, n |-> 0]

\* Parser::new: every Value starts with ValueState::None.
NewResolver(es) ==
    [phase |-> "idle", i |-> 0, values |-> [k \in DOMAIN es |-> "None"], stack |-> <<>>]

\* A caller that counts every member it visited, provided or not.
returned_any(r, st) ==
    IF r.stack = <<>> THEN [r EXCEPT !.i = @ + 1]
    ELSE [r EXCEPT !.stack[Len(r.stack)].k = @ + 1,
                   !.stack[Len(r.stack)].n = @ + 1]

\* update_state returned `st` to its caller: the loop of check drops it and
\* goes to the next index, a group's member loop adds one to n when the
\* state is provided and goes to the next member.
returned(r, st) ==
    IF r.stack = <<>> THEN [r EXCEPT !.i = @ + 1]
    ELSE [r EXCEPT !.stack[Len(r.stack)].k = @ + 1,
                   !.stack[Len(r.stack)].n = IF state_provided(st) THEN @ + 1 ELSE @]

\* A resolver that takes every state other than None for a group in progress.
update_state_call_strict(r, es, src, i) ==
    LET st == r.values[i + 1]
    IN  IF st = "None"
        THEN IF state(es, i).kind = "Arg"
             THEN returned([r EXCEPT !.values[i + 1] = from_n(Len(spans(src, i)))],
                           from_n(Len(spans(src, i))))
             ELSE [r EXCEPT !.values[i + 1] = "Busy", !.stack = Append(@, Frame(i))]
        ELSE [r EXCEPT !.phase = "panic"]

\* Checker::update_state up to its first recursive call: `match val.state`.
\* None: an argument stores from_n of its keys and returns it, a group
\* stores Busy and starts its member loop.  Busy: panic.  Any other state
\* is returned as it is.
update_state_call(r, es, src, i) ==
    LET st == r.values[i + 1]
    IN  IF st = "None"
        THEN IF state(es, i).kind = "Arg"
             THEN returned([r EXCEPT !.values[i + 1] = from_n(Len(spans(src, i)))],
                           from_n(Len(spans(src, i))))
             ELSE [r EXCEPT !.values[i + 1] = "Busy", !.stack = Append(@, Frame(i))]
        ELSE IF st = "Busy" THEN [r EXCEPT !.phase = "panic"]
        ELSE returned(r, st)

\* A group that returns without storing its state.
update_state_leave_busy(r) ==
    LET top == r.stack[Len(r.stack)]
    IN  returned([r EXCEPT !.stack = SubSeq(@, 1, Len(@) - 1)], from_n(top.n))

\* Checker::update_state after the member loop of a group: from_n(n) is
\* stored and returned.
update_state_leave(r) ==
    LET top == r.stack[Len(r.stack)]
    IN  returned([r EXCEPT !.values[top.i + 1] = from_n(top.n),
                           !.stack = SubSeq(@, 1, Len(@) - 1)],
                 from_n(top.n))

\* Checker::provided and Checker::provided_many on the updated states.
provided(vals, i) == state_provided(vals[i + 1])
provided_many(vals, i) == vals[i + 1] = "ProvidedMany"

\* Checker::visit with Checker::name: the arguments under an entry.
name(es, i) == visit_args(es, i)

\* Checker::visit_span: every (argument, span) under an entry, in order.
visit_span(es, src, i) ==
    LET args == visit_args(es, i)
    IN  Concat([k \in DOMAIN args |->
                  [n \in DOMAIN spans(src, args[k]) |->
                      [arg |-> args[k], span |-> spans(src, args[k])[n]]]])

\* Checker::emit_errors.
emit_errors(es, src, i, kind, names) ==
    LET vs == visit_span(es, src, i)
    IN  [k \in DOMAIN vs |-> Diag(kind, vs[k].span, names)]

\* Two diagnostics for every pair of one occurrence of each side with the
\* second side already visited: Checker::emit_conflicts' inner closure.
conflict_pair(a, b) ==
    << Diag("ConflictingArgument", a.span, <<b.arg>>),
       Diag("ConflictingArgument", b.span, <<a.arg>>) >>

\* Checker::emit_conflicts: the closure runs for every occurrence of i and,
\* inside it, for every occurrence of dest.
emit_conflicts(es, src, i, dest) ==
    LET vi == visit_span(es, src, i)
        vd == visit_span(es, src, dest)
    IN  Concat([k \in DOMAIN vi |->
            Concat([n \in DOMAIN vd |-> conflict_pair(vi[k], vd[n])])])

\* validate: "each member conflicts with others", members[k] against
\* members[(k + 1)..].
exclusive_members(es, src, ms) ==
    Concat([k \in DOMAIN ms |->
        LET rest == SubSeq(ms, k + 1, Len(ms))
        IN  Concat([n \in DOMAIN rest |-> emit_conflicts(es, src, ms[k], rest[n])])])

\* "check: exclusives" for one index of schema.exclusives: the groups that
\* are not multiple (Schema::_register_group) and the arguments with action
\* Set.
check_exclusive(es, src, vals, i) ==
    IF ~provided_many(vals, i) THEN <<>>
    ELSE IF state(es, i).kind = "Arg"
    THEN IF state(es, i).action = "Set"
         THEN emit_errors(es, src, i, "DuplicateValue", <<>>) ELSE <<>>
    ELSE IF ~state(es, i).multiple
         THEN exclusive_members(es, src, state(es, i).members) ELSE <<>>

\* "check: required" for one index: a message at the span of the pass.
check_required(es, vals, i) ==
    IF state(es, i).required /\ ~provided(vals, i)
    THEN << Diag("MissingRequired", node, name(es, i)) >> ELSE <<>>

\* "check: requirements" for one index.
check_requirements(es, src, vals, i) ==
    IF ~provided(vals, i) THEN <<>>
    ELSE LET dests == state(es, i).requires
         IN  Concat([k \in DOMAIN dests |->
                IF provided(vals, dests[k]) THEN <<>>
                ELSE emit_errors(es, src, i, "MissingRequired", name(es, dests[k]))])

\* "check: conflicts" for one index.
check_conflicts(es, src, vals, i) ==
    IF ~provided(vals, i) THEN <<>>
    ELSE LET dests == state(es, i).conflicts
         IN  Concat([k \in DOMAIN dests |->
                IF provided(vals, dests[k])
                THEN emit_conflicts(es, src, i, dests[k]) ELSE <<>>])

\* "check: unacceptables" for one flagged index: the message at every
\* occurrence under it when it is provided.
check_unacceptables(es, src, vals, i) ==
    IF ~provided(vals, i) THEN <<>>
    ELSE emit_errors(es, src, i, "UnexpectedArgument", <<>>)

\* A check that returns at the first violated rule.
checker_rules_first(es, src, vals, un) ==
    LET x == Concat([k \in DOMAIN es |-> check_exclusive(es, src, vals, k - 1)])
        r == Concat([k \in DOMAIN es |-> check_required(es, vals, k - 1)])
        q == Concat([k \in DOMAIN es |-> check_requirements(es, src, vals, k - 1)])
        c == Concat([k \in DOMAIN es |-> check_conflicts(es, src, vals, k - 1)])
        u == Concat([k \in DOMAIN un |-> check_unacceptables(es, src, vals, un[k])])
    IN  IF x # <<>> THEN x ELSE IF r # <<>> THEN r ELSE IF q # <<>> THEN q
        ELSE IF c # <<>> THEN c ELSE u

\* The rule loops of check: four over the indices in ascending order
\* (BTreeSet / BTreeMap), then the flagged indices in the order flagged.
checker_rules(es, src, vals, un) ==
    Concat([k \in DOMAIN es |-> check_exclusive(es, src, vals, k - 1)])
    \o Concat([k \in DOMAIN es |-> check_required(es, vals, k - 1)])
    \o Concat([k \in DOMAIN es |-> check_requirements(es, src, vals, k - 1)])
    \o Concat([k \in DOMAIN es |-> check_conflicts(es, src, vals, k - 1)])
    \o Concat([k \in DOMAIN un |-> check_unacceptables(es, src, vals, un[k])])

\* "print help and skip the rest checks": Errors::reset, then one info per
\* help span and nothing else.
checker_help(hs) == [k \in DOMAIN hs |-> Diag("Help", hs[k], <<>>)]

\* check / validate.
checker_check(es, src, hs, un) ==
    LET vals == update_all(es, src)
    IN  IF \E k \in DOMAIN vals : vals[k] = "panic" THEN Aborted("panic")
        ELSE IF hs # <<>> THEN fail(add_all(None, checker_help(hs)))
        ELSE fail(add_all(None, checker_rules(es, src, vals, un)))

\* ------------------------------------------------------------------------
\* src/src/runtime.rs and shared/src/runtime.rs
\* ------------------------------------------------------------------------

\* Whether group membership is tested with Iterator::any (src/src/runtime.rs)
\* or Iterator::all (shared/src/runtime.rs), and whether the targets of a
\* conflict are filtered by `supplied` (shared) or not (src).
Generation(any, filtered) == [any |-> any, filtered |-> filtered]
SrcRuntime == Generation(TRUE, FALSE)
SharedRuntime == Generation(FALSE, TRUE)

\* The `supplied` closure: sources.get(id).is_some().  Only arguments ever
\* get an entry in `sources`.
rt_supplied(es, src, id) == state(es, id).kind = "Arg" /\ spans(src, id) # <<>>

\* The `flat_group` closure: a group's members, one level ("assume no
\* nested groups"), or the argument itself.
flat_group(es, id) ==
    IF state(es, id).kind = "Group" THEN state(es, id).members ELSE <<id>>

\* Runtime::add_conflicts_with over the whole schema: every declaration is
\* pushed on the lists of both of its ends, in declaration order.
add_conflicts_with(es, id) ==
    Concat([d \in DOMAIN es |->
        Concat([k \in DOMAIN es[d].conflicts |->
            IF d - 1 = id THEN << es[d].conflicts[k] >>
            ELSE IF es[d].conflicts[k] = id THEN << d - 1 >>
            ELSE <<>>])])

RECURSIVE SortIds(_)
\* Buffer::acquire: the names, sorted.
SortIds(S) ==
    IF S = {} THEN <<>>
    ELSE LET m == CHOOSE x \in S : \A y \in S : x <= y
         IN  <<m>> \o SortIds(S \ {m})

\* The `add_error` closure: one diagnostic per span.
add_error(sp, kind, names) == [k \in DOMAIN sp |-> Diag(kind, sp[k], names)]

\* A finish that never looks at the number of values.
rt_duplicate_never(es, src, id) == <<>>

\* "Ensure the number of values meets the specified action."
rt_duplicate(es, src, id) ==
    IF state(es, id).kind = "Arg" /\ state(es, id).action = "Set"
       /\ Len(spans(src, id)) > 1
    THEN add_error(spans(src, id), "DuplicateValue", <<>>) ELSE <<>>

\* The body of the required/requirements loop for one (spans, that).
rt_missing(g, es, src, sp, that) ==
    IF state(es, that).kind = "Group"
    THEN LET ms == state(es, that).members
             ok == IF g.any THEN \E k \in DOMAIN ms : rt_supplied(es, src, ms[k])
                   ELSE \A k \in DOMAIN ms : rt_supplied(es, src, ms[k])
         IN  IF ok THEN <<>> ELSE add_error(sp, "MissingRequired", SortIds(Range(ms)))
    ELSE IF rt_supplied(es, src, that) THEN <<>>
         ELSE add_error(sp, "MissingRequired", <<that>>)

\* "required by this node".
rt_required(g, es, src, id) ==
    IF state(es, id).required THEN rt_missing(g, es, src, <<node>>, id) ELSE <<>>

\* The `flat_key_group` / `flat_pair` closure: the supplied arguments of
\* `this` paired with every target of the list.
flat_pair(es, src, this, those) ==
    LET fs == flat_group(es, this)
    IN  Concat([k \in DOMAIN fs |->
            IF rt_supplied(es, src, fs[k])
            THEN [n \in DOMAIN those |-> [this |-> fs[k], that |-> those[n]]]
            ELSE <<>>])

\* "required by an argument".
rt_requirements(g, es, src, id) ==
    LET ps == flat_pair(es, src, id, state(es, id).requires)
    IN  Concat([k \in DOMAIN ps |->
            rt_missing(g, es, src, spans(src, ps[k].this), ps[k].that)])

\* "Arguments in a group conflict with each other."
rt_group(es, src, id) ==
    IF state(es, id).kind # "Group" THEN <<>>
    ELSE LET ms == state(es, id).members
         IN  Concat([i \in DOMAIN ms |->
                IF ~rt_supplied(es, src, ms[i]) THEN <<>>
                ELSE LET others == Without(ms, i)
                     IN  Concat([j \in DOMAIN others |->
                            IF rt_supplied(es, src, others[j])
                            THEN add_error(spans(src, ms[i]), "ConflictingArgument",
                                           << others[j] >>)
                            ELSE <<>>])])

\* "Ensure all conflict arguments/groups are not supplied."
rt_conflicts(g, es, src, id) ==
    LET ps == flat_pair(es, src, id, add_conflicts_with(es, id))
    IN  Concat([k \in DOMAIN ps |->
            LET ts == flat_group(es, ps[k].that)
            IN  Concat([n \in DOMAIN ts |->
                    IF g.filtered /\ ~rt_supplied(es, src, ts[n]) THEN <<>>
                    ELSE add_error(spans(src, ps[k].this), "ConflictingArgument",
                                   << ts[n] >>)])])

\* A report with one diagnostic per unexpected argument, at its first span.
rt_unexpected_once(es, src, id) ==
    LET ts == flat_group(es, id)
    IN  Concat([n \in DOMAIN ts |->
            IF rt_supplied(es, src, ts[n])
            THEN << Diag("UnexpectedArgument", spans(src, ts[n])[1], << ts[n] >>) >>
            ELSE <<>>])

\* "Reports unexpected arguments/groups" for one flagged Id: every supplied
\* argument of its one-level flattening, at each of its spans.
rt_unexpected(es, src, id) ==
    LET ts == flat_group(es, id)
    IN  Concat([n \in DOMAIN ts |->
            IF rt_supplied(es, src, ts[n])
            THEN add_error(spans(src, ts[n]), "UnexpectedArgument", << ts[n] >>)
            ELSE <<>>])

\* The diagnostics of Runtime::finish in the order they are added.
rt_diags(g, es, src, un) ==
    Concat([k \in DOMAIN es |-> rt_duplicate(es, src, k - 1)])
    \o Concat([k \in DOMAIN es |-> rt_required(g, es, src, k - 1)])
    \o Concat([k \in DOMAIN es |-> rt_requirements(g, es, src, k - 1)])
    \o Concat([k \in DOMAIN es |-> rt_group(es, src, k - 1)])
    \o Concat([k \in DOMAIN es |-> rt_conflicts(g, es, src, k - 1)])
    \o Concat([k \in DOMAIN un |-> rt_unexpected(es, src, un[k])])

\* Runtime::finish.
finish(g, es, src, un) == fail(add_all(None, rt_diags(g, es, src, un)))

\* Arg::add_value pushes the value on Arg::values and its span on the
\* runtime's sources: an argument holds one value per recorded span.
values(src, id) == spans(src, id)

\* Arg::option / Arg::into_option: assert!(self.values.len() <= 1), then the
\* first value if any.
option(vals) ==
    IF Len(vals) <= 1 THEN [panic |-> FALSE, value |-> vals]
    ELSE [panic |-> TRUE, value |-> <<>>]

\* ------------------------------------------------------------------------
\* slim/src/checker.rs, driven as macros/src/define_args.rs check_attrs
\* ------------------------------------------------------------------------

\* Checker::with_error_at_default: at the call site when no default span was
\* given, else once at every default span.
with_error_at_default(dspans, kind, names) ==
    IF dspans = <<>> THEN << Diag(kind, node, names) >>
    ELSE [k \in DOMAIN dspans |-> Diag(kind, dspans[k], names)]

\* has_any.
has_any(src, args) == \E k \in DOMAIN args : spans(src, args[k]) # <<>>

\* Checker::required.
slim_required(src, dspans, a) ==
    IF spans(src, a) = <<>> THEN with_error_at_default(dspans, "MissingRequired", <<a>>)
    ELSE <<>>

\* Checker::required_any.
slim_required_any(src, dspans, args) ==
    IF ~has_any(src, args) THEN with_error_at_default(dspans, "MissingRequired", args)
    ELSE <<>>

\* Checker::exclusive: "too many values (<= 1)" at every key.
slim_exclusive(src, a) ==
    IF Len(spans(src, a)) > 1
    THEN [k \in DOMAIN spans(src, a) |-> Diag("DuplicateValue", spans(src, a)[k], <<>>)]
    ELSE <<>>

\* Checker::requires.
slim_requires(src, a, b) ==
    IF spans(src, b) = <<>>
    THEN [k \in DOMAIN spans(src, a) |-> Diag("MissingRequired", spans(src, a)[k], <<b>>)]
    ELSE <<>>

\* Checker::requires_any.
slim_requires_any(src, a, args) ==
    IF ~has_any(src, args)
    THEN [k \in DOMAIN spans(src, a) |-> Diag("MissingRequired", spans(src, a)[k], args)]
    ELSE <<>>

\* Checker::conflicts_with: two errors for every pair of keys.
slim_conflicts_with(src, a, b) ==
    Concat([k \in DOMAIN spans(src, a) |->
        Concat([n \in DOMAIN spans(src, b) |->
            << Diag("ConflictingArgument", spans(src, a)[k], <<b>>),
               Diag("ConflictingArgument", spans(src, b)[n], <<a>>) >>])])

\* Checker::conflicts_with_all.
slim_conflicts_with_all(src, a, bs) ==
    Concat([k \in DOMAIN bs |-> slim_conflicts_with(src, a, bs[k])])

\* Checker::exclusive_group over combination(args).
slim_exclusive_group(src, args) ==
    Concat([k \in DOMAIN args |->
        slim_conflicts_with_all(src, args[k], SubSeq(args, k + 1, Len(args)))])

\* The container level checks a definition of group id asks for.
slim_container(es, src, dspans, id) ==
    IF state(es, id).kind # "Group" THEN <<>>
    ELSE (IF state(es, id).required
          THEN slim_required_any(src, dspans, state(es, id).members) ELSE <<>>)
         \o (IF ~state(es, id).multiple
             THEN slim_exclusive_group(src, state(es, id).members) ELSE <<>>)

\* The field level checks a definition of argument id asks for.
slim_field(es, src, dspans, id) ==
    IF state(es, id).kind # "Arg" THEN <<>>
    ELSE LET a == state(es, id)
         IN  (IF a.required THEN slim_required(src, dspans, id) ELSE <<>>)
             \o (IF a.action = "Set" THEN slim_exclusive(src, id) ELSE <<>>)
             \o Concat([k \in DOMAIN a.requires |->
                    IF state(es, a.requires[k]).kind = "Arg"
                    THEN slim_requires(src, id, a.requires[k])
                    ELSE slim_requires_any(src, id, state(es, a.requires[k]).members)])
             \o Concat([k \in DOMAIN a.conflicts |->
                    slim_conflicts_with_all(src, id, flat_group(es, a.conflicts[k]))])

\* Checker::unallowed: one error at every key of the argument.
unallowed(src, a) ==
    [k \in DOMAIN spans(src, a) |-> Diag("UnexpectedArgument", spans(src, a)[k], <<>>)]

\* check_attrs, "perform defined checks": the container's, then each
\* field's, then the arguments not allowed in this context.
slim_diags(es, src, dspans, un) ==
    Concat([k \in DOMAIN es |-> slim_container(es, src, dspans, k - 1)])
    \o Concat([k \in DOMAIN es |-> slim_field(es, src, dspans, k - 1)])
    \o Concat([k \in DOMAIN un |-> unallowed(src, un[k])])

\* Errors::fail of src/src/errors.rs leaves nothing behind (self.e.take()).
take(error) == None

\* Checker::finish leaves no default span behind (self.spans.clear()).
spans_clear(dspans) == <<>>

\* A clear that keeps the keys.
clear_not(keys) == keys

\* Only the last key and value are dropped.
clear_last(keys) == IF keys = <<>> THEN keys ELSE SubSeq(keys, 1, Len(keys) - 1)

\* Arg::clear: keys (and values) emptied.
clear(keys) == <<>>

\* What the slim Checker can express: groups of arguments only, and edges
\* declared on arguments.
SlimSchema(es) ==
    \A k \in DOMAIN es :
        es[k].kind = "Group" =>
            /\ \A n \in DOMAIN es[k].members : state(es, es[k].members[n]).kind = "Arg"
            /\ es[k].requires = <<>>
            /\ es[k].conflicts = <<>>

\* The Runtime of src/ and shared/ has no `multiple` flag: every group is
\* exclusive.
RuntimeSchema(es) == \A k \in DOMAIN es : ~es[k].multiple

\* ------------------------------------------------------------------------
\* Construction: RuntimeBuilder of core, IdMap of src/src/schema.rs and
\* Runtime::register of src/src/runtime.rs
\* ------------------------------------------------------------------------

\* The names a construction may intern.
Names == {"arg1", "arg2", "arg3"}

\* The names one definition refers to (requires, conflicts, members).
RefLists == {<<>>} \cup {<<n>> : n \in Names}

\* Largest number of occurrences tracked through a finished runtime.
MaxTracks == 2

\* The generations that intern names: RuntimeBuilder (core), IdMap
\* (checker) and Runtime::register (runtime).
Builders == {"core", "checker", "runtime"}

\* State::Undefined / InfoKind::Unregistered: a name interned, no kind yet.
Undefined(nm) ==
    [name |-> nm, kind |-> "Undefined", refs |-> <<>>, sources |-> 0]

\* ArgState::new / GroupState::new: a definition, its name still the dummy
\* one, with the Ids it refers to.
Defined(kind, refs) ==
    [name |-> "DUMMY", kind |-> kind, refs |-> refs, sources |-> 0]

\* The operation a construction ran last, with its argument and the Id it
\* returned or was given.
Last(op, nm, id, own) == [op |-> op, name |-> nm, id |-> id, own |-> own]

\* RuntimeBuilder::new / IdMap::default / Runtime::default. `ids` maps a
\* name to <<id>> when occupied and to <<>> when vacant; `states` is the
\* table of entries (states, infos, names), indexed by Id.
NewBuilder ==
    [ids |-> [n \in Names |-> <<>>],
     states |-> <<>>,
     status |-> "building",
     last |-> Last("new", "", 0, TRUE)]

\* A registration that allocates an Id whether or not the name is known.
register_always(rt, nm) ==
    LET id == Len(rt.states)
    IN  [rt |-> [rt EXCEPT !.states = Append(@, Undefined(nm)),
                           !.ids[nm] = <<id>>],
         id |-> id]

\* RuntimeBuilder::register / IdMap::of / Runtime::register: the Id of the
\* name, allocated as the size of the table when the entry is vacant.
register(rt, nm) ==
    IF rt.ids[nm] # <<>>
    THEN [rt |-> rt, id |-> rt.ids[nm][1]]
    ELSE LET id == Len(rt.states)
         IN  [rt |-> [rt EXCEPT !.states = Append(@, Undefined(nm)),
                                !.ids[nm] = <<id>>],
              id |-> id]

\* The chain of requires / conflicts / arg calls of a builder, or the
\* `into_iter().map(self.ids.as_map()).collect()` of schema.rs: every name
\* registered in order, the Ids collected.
RECURSIVE register_all(_, _)
register_all(rt, names) ==
    IF names = <<>> THEN [rt |-> rt, ids |-> <<>>]
    ELSE LET r == register(rt, Head(names))
             rest == register_all(r.rt, Tail(names))
         IN  [rt |-> rest.rt, ids |-> <<r.id>> \o rest.ids]

\* A commit that replaces whatever the slot holds.
track_state_overwrite(rt, id, st) ==
    [rt EXCEPT !.states[id + 1] = [st EXCEPT !.name = rt.states[id + 1].name]]

\* RuntimeBuilder::track_state / IdMap::register: commit a kind to an Id;
\* the slot keeps its name. A slot that has a kind already is fatal.
track_state(rt, id, st) ==
    LET slot == rt.states[id + 1]
    IN  IF slot.kind = "Undefined"
        THEN [rt EXCEPT !.states[id + 1] = [st EXCEPT !.name = slot.name]]
        ELSE [rt EXCEPT !.status = "duplicate"]

\* rt.arg(name).requires(..).finish() and rt.group(name).arg(..).finish():
\* the name is registered, then every name referred to, then the state is
\* committed.
define_core(rt, kind, nm, refs) ==
    LET own == register(rt, nm)
        rs == register_all(own.rt, refs)
    IN  track_state(rs.rt, own.id, Defined(kind, rs.ids))

\* Schema::_register_arg commits the kind before it maps the names referred
\* to; Schema::_register_group maps the members first.
define_schema(rt, kind, nm, refs) ==
    LET own == register(rt, nm)
    IN  IF kind = "Group"
        THEN LET rs == register_all(own.rt, refs)
             IN  track_state(rs.rt, own.id, Defined(kind, rs.ids))
        ELSE LET t == track_state(own.rt, own.id, Defined(kind, <<>>))
             IN  IF t.status = "duplicate" THEN t
                 ELSE LET rs == register_all(t, refs)
                      IN  [rs.rt EXCEPT !.states[own.id + 1].refs = rs.ids]

\* A finish that checks nothing.
builder_finish_unchecked(rt) == [rt EXCEPT !.status = "finished"]

\* RuntimeBuilder::finish: fatal when some state is still Undefined.
builder_finish(rt) ==
    IF \E k \in DOMAIN rt.states : rt.states[k].kind = "Undefined"
    THEN [rt EXCEPT !.status = "missing"]
    ELSE [rt EXCEPT !.status = "finished"]

\* Runtime::track_source: the state at the handle's index must exist and be
\* an argument; the handle carries nothing but the index.
track_source(rt, id) ==
    IF id < Len(rt.states) /\ rt.states[id + 1].kind = "Arg"
    THEN [rt EXCEPT !.states[id + 1].sources = @ + 1]
    ELSE [rt EXCEPT !.status = "mismatch"]

\* ------------------------------------------------------------------------
\* The default formatters: core/src/error.rs and shared/src/error.rs
\* ------------------------------------------------------------------------

\* The names an error may list, and the namespaces of a formatter (none, or
\* one).
ArgNames == {"a", "b", "c"}
Namespaces == {<<>>, <<"ns">>}

\* The lists of at most MaxArgs names.
NameLists == UNION {[1 .. n -> ArgNames] : n \in 0 .. MaxArgs}

\* The backquote written around a name (a TLA+ string cannot hold the
\* character itself).
Tick == "'"

\* FmtArg: the name between backquotes, after the namespace and a dot when
\* there is one.  A text is the sequence of the pieces written.
FmtArg(ns, nm) ==
    IF ns # <<>> THEN <<Tick, ns[1], ".", nm, Tick>> ELSE <<Tick, nm, Tick>>

\* The `for arg in ..` loops of both formatters: ", " and the name, for
\* each.
RECURSIVE FmtRest(_, _)
FmtRest(ns, args) ==
    IF args = <<>> THEN <<>>
    ELSE <<", ">> \o FmtArg(ns, Head(args)) \o FmtRest(ns, Tail(args))

\* FmtGrp of core: match args.len().
FmtGrp(ns, args) ==
    CASE Len(args) = 0 -> <<>>
      [] Len(args) = 1 -> FmtArg(ns, args[1])
      [] Len(args) = 2 -> FmtArg(ns, args[1]) \o <<" or ">> \o FmtArg(ns, args[2])
      [] OTHER -> <<"one of ">> \o FmtArg(ns, args[1]) \o FmtRest(ns, Tail(args))

\* FmtArgs of shared: match (grp.get(0), grp.get(1)).  The second arm takes
\* every list of two names or more; the last arm is left with the empty
\* list.
FmtArgs(ns, grp) ==
    CASE Len(grp) >= 1 /\ Len(grp) < 2 -> FmtArg(ns, grp[1])
      [] Len(grp) >= 1 /\ Len(grp) >= 2 ->
            FmtArg(ns, grp[1]) \o <<" or ">> \o FmtArg(ns, grp[2])
      [] OTHER ->
            IF grp = <<>> THEN <<>>
            ELSE <<"one of ">> \o FmtArg(ns, grp[1]) \o FmtRest(ns, Tail(grp))

\* No list of names is being formatted.
NoMessage == [fmt |-> "none", ns |-> <<>>, args |-> <<>>, done |-> FALSE, out |-> <<>>]

\* ------------------------------------------------------------------------
\* The state machine
\* ------------------------------------------------------------------------

Init ==
    /\ impl \in Impls
    /\ entries \in Schemas
    /\ impl \in {"runtime", "shared"} => RuntimeSchema(entries)
    /\ impl = "slim" => SlimSchema(entries)
    /\ sources = [k \in DOMAIN entries |-> <<>>]
    /\ help_spans = <<>>
    /\ nextSpan = 1
    /\ errors = None
    /\ default_spans = <<>>
    /\ reported = NoResult
    /\ result = NoResult
    /\ unexpected = <<>>
    /\ builder = NewBuilder
    /\ message = NoMessage
    /\ resolver = NewResolver(entries)
    /\ memo = <<>>
    /\ stream = NoStream

\* Runtime::track_source / Arg::add_value / Runtime::add_source / Arg::add:
\* one more occurrence of argument id, at the next location of the input.
Record(id) ==
    /\ nextSpan <= MaxSpans
    /\ state(entries, id).kind = "Arg"
    /\ impl = "slim" => result = NoResult
    /\ sources' = [sources EXCEPT ![id + 1] = Append(@, nextSpan)]
    /\ nextSpan' = nextSpan + 1
    /\ result' = NoResult
    /\ UNCHANGED <<stream, memo, resolver, message, builder, unexpected, impl, entries, help_spans, errors, default_spans, reported>>

\* An occurrence of the help marker: its span joins Parser::help_spans.
RecordHelp ==
    /\ impl = "checker"
    /\ nextSpan <= MaxSpans
    /\ help_spans' = Append(help_spans, nextSpan)
    /\ nextSpan' = nextSpan + 1
    /\ result' = NoResult
    /\ UNCHANGED <<stream, memo, resolver, message, builder, unexpected, impl, entries, sources, errors, default_spans, reported>>

\* Parser::require_empty / Arg::set_unexpected / ArgGroup::set_unexpected:
\* entry id is not allowed in this pass.  core has no such rule; the slim
\* Checker::unallowed takes an argument.
SetUnexpected(id) ==
    /\ impl # "core"
    /\ Len(unexpected) < MaxUnexpected
    /\ impl = "slim" => (state(entries, id).kind = "Arg" /\ result = NoResult)
    /\ unexpected' = Append(unexpected, id)
    /\ result' = NoResult
    /\ UNCHANGED <<stream, memo, resolver, message, builder, impl, entries, sources, help_spans, nextSpan, errors,
                   default_spans, reported>>

\* Checker::with_default_span: the attribute being checked.
WithDefaultSpan ==
    /\ impl = "slim"
    /\ nextSpan <= MaxSpans
    /\ result = NoResult
    /\ default_spans = <<>>
    /\ default_spans' = Append(default_spans, nextSpan)
    /\ nextSpan' = nextSpan + 1
    /\ UNCHANGED <<stream, memo, resolver, message, builder, unexpected, impl, entries, sources, help_spans, errors, reported, result>>

\* Runtime::check of core: a new RuntimeChecker is built, runs and is
\* dropped; `memo` keeps what its `supplied` held at that point.
ValidateCore ==
    /\ impl = "core"
    /\ result = NoResult
    /\ LET m == fresh_supplied(memo, entries)
       IN  /\ result' = core_check(m, entries, sources)
           /\ memo' = IF result'.status = "overflow" THEN memo
                      ELSE Append(memo, stored_supplied(m, entries, sources))
    /\ UNCHANGED <<stream, resolver, message, builder, unexpected, impl, entries, sources, help_spans, nextSpan, errors,
                   default_spans, reported>>

\* check of src/src/checker.rs.
ValidateChecker ==
    /\ impl = "checker"
    /\ result = NoResult
    /\ result' = checker_check(entries, sources, help_spans, unexpected)
    /\ UNCHANGED <<stream, memo, resolver, message, builder, unexpected, impl, entries, sources, help_spans, nextSpan, errors,
                   default_spans, reported>>

\* Runtime::finish of src/src/runtime.rs.
ValidateRuntime ==
    /\ impl = "runtime"
    /\ result = NoResult
    /\ result' = finish(SrcRuntime, entries, sources, unexpected)
    /\ UNCHANGED <<stream, memo, resolver, message, builder, unexpected, impl, entries, sources, help_spans, nextSpan, errors,
                   default_spans, reported>>

\* Runtime::finish of shared/src/runtime.rs.
ValidateShared ==
    /\ impl = "shared"
    /\ result = NoResult
    /\ result' = finish(SharedRuntime, entries, sources, unexpected)
    /\ UNCHANGED <<stream, memo, resolver, message, builder, unexpected, impl, entries, sources, help_spans, nextSpan, errors,
                   default_spans, reported>>

\* The defined checks followed by Checker::finish.
ValidateSlim ==
    /\ impl = "slim"
    /\ result = NoResult
    /\ LET e == add_all(errors, slim_diags(entries, sources, default_spans, unexpected))
       IN  /\ result' = fail(e)
           /\ errors' = take(e)
    /\ default_spans' = spans_clear(default_spans)
    /\ UNCHANGED <<stream, memo, resolver, message, builder, unexpected, impl, entries, sources, help_spans, nextSpan, reported>>

\* check_attrs, "reset": the result went to the caller and every argument
\* is cleared for the next attribute.
Reset ==
    /\ impl = "slim"
    /\ result # NoResult
    /\ sources' = [k \in DOMAIN sources |-> clear(sources[k])]
    /\ reported' = result
    /\ result' = NoResult
    /\ UNCHANGED <<stream, memo, resolver, message, builder, unexpected, impl, entries, help_spans, nextSpan, errors, default_spans>>

Next ==
    \/ \E id \in Ids(entries) : Record(id)
    \/ RecordHelp
    \/ \E id \in Ids(entries) : SetUnexpected(id)
    \/ WithDefaultSpan
    \/ ValidateCore
    \/ ValidateChecker
    \/ ValidateRuntime
    \/ ValidateShared
    \/ ValidateSlim
    \/ Reset

Spec == Init /\ [][Next]_vars

\* The variables of a validation pass, which a construction leaves alone.
pass == <<impl, entries, sources, help_spans, nextSpan, errors, default_spans,
          reported, result, unexpected>>

\* A construction starts empty, in one of the generations that intern names.
InitBuild ==
    /\ impl \in Builders
    /\ entries = <<>>
    /\ sources = <<>>
    /\ help_spans = <<>>
    /\ nextSpan = 1
    /\ errors = None
    /\ default_spans = <<>>
    /\ reported = NoResult
    /\ result = NoResult
    /\ unexpected = <<>>
    /\ builder = NewBuilder
    /\ message = NoMessage
    /\ resolver = NewResolver(entries)
    /\ memo = <<>>
    /\ stream = NoStream

\* register / of: intern one name.
Register(nm) ==
    /\ builder.status = "building"
    /\ LET r == register(builder, nm)
       IN  builder' = [r.rt EXCEPT !.last = Last("register", nm, r.id, TRUE)]
    /\ UNCHANGED <<pass, message, resolver, memo, stream>>

\* One definition statement of core or of schema.rs.
Define(kind, nm, refs) ==
    /\ impl \in {"core", "checker"}
    /\ builder.status = "building"
    /\ LET rt == IF impl = "core" THEN define_core(builder, kind, nm, refs)
                 ELSE define_schema(builder, kind, nm, refs)
       IN  builder' = [rt EXCEPT !.last = Last("define", nm, rt.ids[nm][1], TRUE)]
    /\ UNCHANGED <<pass, message, resolver, memo, stream>>

\* RuntimeBuilder::finish.
Finish ==
    /\ impl = "core"
    /\ builder.status = "building"
    /\ builder' = [builder_finish(builder) EXCEPT !.last = Last("finish", "", 0, TRUE)]
    /\ UNCHANGED <<pass, message, resolver, memo, stream>>

\* The indices an argument handle of another RuntimeBuilder may carry.
ForeignIds == 0 .. (Cardinality(Names) - 1)

\* The handles ArgBuilder::finish of this builder returned.
OwnIds == {k - 1 : k \in {j \in DOMAIN builder.states : builder.states[j].kind = "Arg"}}

\* The occurrences tracked so far.
RECURSIVE Tracked(_)
Tracked(states) ==
    IF states = <<>> THEN 0 ELSE Head(states).sources + Tracked(Tail(states))

\* Runtime::track_arg with a handle of this runtime (own) or of another.
TrackArg(own, id) ==
    /\ impl = "core"
    /\ builder.status = "finished"
    /\ Tracked(builder.states) < MaxTracks
    /\ id \in (IF own THEN OwnIds ELSE ForeignIds)
    /\ builder' = [track_source(builder, id) EXCEPT !.last = Last("track", "", id, own)]
    /\ UNCHANGED <<pass, message, resolver, memo, stream>>

NextBuild ==
    \/ \E nm \in Names : Register(nm)
    \/ \E kind \in {"Arg", "Group"}, nm \in Names, refs \in RefLists :
          Define(kind, nm, refs)
    \/ Finish
    \/ \E own \in BOOLEAN, id \in ForeignIds : TrackArg(own, id)

SpecBuild == InitBuild /\ [][NextBuild]_vars

\* A list of names is handed to one of the two default formatters.
InitFmt ==
    /\ impl \in {"core", "shared"}
    /\ entries = <<>>
    /\ sources = <<>>
    /\ help_spans = <<>>
    /\ nextSpan = 1
    /\ errors = None
    /\ default_spans = <<>>
    /\ reported = NoResult
    /\ result = NoResult
    /\ unexpected = <<>>
    /\ builder = NewBuilder
    /\ resolver = NewResolver(entries)
    /\ memo = <<>>
    /\ stream = NoStream
    /\ \E ns \in Namespaces, args \in NameLists :
          message = [fmt |-> IF impl = "core" THEN "FmtGrp" ELSE "FmtArgs",
                     ns |-> ns, args |-> args, done |-> FALSE, out |-> <<>>]

\* fmt::Display::fmt of FmtGrp (core).
DisplayFmtGrp ==
    /\ message.fmt = "FmtGrp"
    /\ ~message.done
    /\ message' = [message EXCEPT !.done = TRUE,
                                  !.out = FmtGrp(message.ns, message.args)]
    /\ UNCHANGED <<pass, builder, resolver, memo, stream>>

\* fmt::Display::fmt of FmtArgs (shared).
DisplayFmtArgs ==
    /\ message.fmt = "FmtArgs"
    /\ ~message.done
    /\ message' = [message EXCEPT !.done = TRUE,
                                  !.out = FmtArgs(message.ns, message.args)]
    /\ UNCHANGED <<pass, builder, resolver, memo, stream>>

NextFmt == DisplayFmtGrp \/ DisplayFmtArgs

SpecFmt == InitFmt /\ [][NextFmt]_vars

\* Schemas whose groups share members or nest, with the groups before or
\* after what they list: an argument in two groups, a diamond declared from
\* the top, and a group of two arguments nested in another.
Deep ==
    { << Arg("Append", FALSE, <<>>, <<>>),
         Group(<<0>>, FALSE, TRUE, <<>>, <<>>), Group(<<0>>, r, TRUE, <<>>, <<>>) >> :
        r \in BOOLEAN }
    \cup
    { << Group(<<2>>, FALSE, TRUE, <<>>, <<>>), Group(<<2>>, r, TRUE, <<>>, <<>>),
         Arg("Append", FALSE, <<>>, <<>>) >> :
        r \in BOOLEAN }
    \cup
    { << Group(m, r, TRUE, <<>>, <<>>),
         Group(<<3>>, FALSE, TRUE, <<>>, <<>>), Group(<<3>>, FALSE, TRUE, <<>>, <<>>),
         Arg("Append", FALSE, <<>>, <<>>) >> :
        m \in {<<1, 2>>, <<2, 1>>}, r \in BOOLEAN }
    \cup
    { << Arg("Append", FALSE, <<>>, <<>>), Arg("Append", FALSE, <<>>, <<>>),
         Group(<<0, 1>>, FALSE, TRUE, <<>>, <<>>), Group(m, r, TRUE, <<>>, <<>>) >> :
        m \in {<<2>>, <<2, 0>>}, r \in BOOLEAN }
    \cup
    { << Group(<<1>>, r, TRUE, <<>>, <<>>), Group(<<2, 3>>, FALSE, TRUE, <<>>, <<>>),
         Arg("Append", FALSE, <<>>, <<>>), Arg("Append", FALSE, <<>>, <<>>) >> :
        r \in BOOLEAN }

\* A Parser of src/src/parser.rs over one schema, nothing parsed yet.
InitResolve ==
    /\ impl = "checker"
    /\ entries \in Schemas \cup Deep
    /\ sources = [k \in DOMAIN entries |-> <<>>]
    /\ help_spans = <<>>
    /\ nextSpan = 1
    /\ errors = None
    /\ default_spans = <<>>
    /\ reported = NoResult
    /\ result = NoResult
    /\ unexpected = <<>>
    /\ builder = NewBuilder
    /\ message = NoMessage
    /\ resolver = NewResolver(entries)
    /\ memo = <<>>
    /\ stream = NoStream

\* An occurrence parsed before Parser::finish.
ParseKey(id) ==
    /\ resolver.phase = "idle"
    /\ Record(id)

\* An occurrence of the help marker parsed before Parser::finish.
ParseHelp ==
    /\ resolver.phase = "idle"
    /\ RecordHelp

\* check, "update state of each argument or group": c.update_state(0, i)
\* for the next index of the loop.
UpdateLoop ==
    /\ resolver.phase \in {"idle", "update"}
    /\ resolver.stack = <<>>
    /\ resolver.i < Len(entries)
    /\ resolver' = [update_state_call(resolver, entries, sources, resolver.i)
                      EXCEPT !.phase = "update"]
    /\ UNCHANGED <<pass, builder, message, memo, stream>>

\* The member loop of a group: self.update_state(i, member) for its next
\* member, which panics on a member that is Busy.
UpdateMember ==
    /\ resolver.phase = "update"
    /\ resolver.stack # <<>>
    /\ LET top == resolver.stack[Len(resolver.stack)]
           ms == state(entries, top.i).members
       IN  /\ top.k <= Len(ms)
           /\ resolver' = update_state_call(resolver, entries, sources, ms[top.k])
    /\ result' = IF resolver'.phase = "panic" THEN Aborted("panic") ELSE result
    /\ UNCHANGED <<impl, entries, sources, help_spans, nextSpan, errors, default_spans,
                   reported, unexpected, builder, message, memo, stream>>

\* The end of the member loop of a group.
LeaveGroup ==
    /\ resolver.phase = "update"
    /\ resolver.stack # <<>>
    /\ LET top == resolver.stack[Len(resolver.stack)]
       IN  top.k > Len(state(entries, top.i).members)
    /\ resolver' = update_state_leave(resolver)
    /\ UNCHANGED <<pass, builder, message, memo, stream>>

\* The rest of check once every index was updated: the help short cut or
\* the rule loops, on the states now stored.
CheckRules ==
    /\ resolver.phase = "update"
    /\ resolver.stack = <<>>
    /\ resolver.i = Len(entries)
    /\ resolver' = [resolver EXCEPT !.phase = "done"]
    /\ result' = IF help_spans # <<>> THEN fail(add_all(None, checker_help(help_spans)))
                 ELSE fail(add_all(None,
                        checker_rules(entries, sources, resolver.values, unexpected)))
    /\ UNCHANGED <<impl, entries, sources, help_spans, nextSpan, errors, default_spans,
                   reported, unexpected, builder, message, memo, stream>>

NextResolve ==
    \/ \E id \in Ids(entries) : ParseKey(id)
    \/ ParseHelp
    \/ UpdateLoop
    \/ UpdateMember
    \/ LeaveGroup
    \/ CheckRules

SpecResolve == InitResolve /\ [][NextResolve]_vars

\* ------------------------------------------------------------------------
\* The front-end parsers: comma-separated arguments read from a token stream
\*
\* A token is an identifier ("a" names an argument of ArgKind::Expr, "f" one
\* of ArgKind::Flag, "x" names nothing), a comma, an equal sign or "v", a
\* value whose type parses from exactly one literal token.  A span is the
\* position of a token in the input.

Tokens == {"a", "f", "x", ",", "=", "v"}

Idents == {"a", "f", "x"}

MaxTokens == 4

Inputs == UNION { [1..n -> Tokens] : n \in 0..MaxTokens }

Parsers == {"parser", "shared", "slim"}

\* Schema::i followed by the ValueKind::Arg test: the kind of the argument
\* a key names, "none" for a key that names no argument.
ArgKindOf(key) ==
    IF key = "a" THEN "Expr" ELSE IF key = "f" THEN "Flag" ELSE "none"

NewStream(g, input) ==
    [gen |-> g, input |-> input, pos |-> 1, starts |-> <<>>,
     errors |-> <<>>, added |-> <<>>]

is_empty(p) == p.pos > Len(p.input)

peek(p) == IF is_empty(p) THEN "eof" ELSE p.input[p.pos]

is_eoa(p) == peek(p) = "," \/ is_empty(p)

\* input.parse::<TokenTree>() and the parse of a token that was peeked.
consume(p) == [p EXCEPT !.pos = p.pos + 1]

\* Errors::add / ParserContext::error with a diagnostic at a span.
stream_error(p, kind, span) ==
    [p EXCEPT !.errors = Append(p.errors, [kind |-> kind, at |-> span])]

\* Arg::add_value(span, value).
add_value(p, key, span) ==
    [p EXCEPT !.added = Append(p.added, [key |-> key, at |-> span])]

\* "consume all input till the next comma" / "Eat all tokens util a comma":
\* the comma is eaten too.
RECURSIVE eat(_)
eat(p) ==
    IF is_empty(p) THEN p
    ELSE IF peek(p) = "," THEN consume(p)
    ELSE eat(consume(p))

\* AnyArg::parse_value on the stream: tokens.parse() of the value type.
parse_value(p, key, span) ==
    IF peek(p) = "v" THEN add_value(consume(p), key, span)
    ELSE stream_error(p, "Syntax", p.pos)

\* Parser::parse_next of src/src/parser.rs, its error added by the caller.
parse_next(p) ==
    LET span == p.pos IN
    IF peek(p) \notin Idents THEN stream_error(p, "Syntax", span)
    ELSE LET key == peek(p)
             q == consume(p)
         IN  IF ArgKindOf(key) = "none" THEN stream_error(q, "UnknownArgument", span)
             ELSE IF peek(q) = "=" THEN parse_value(consume(q), key, span)
             ELSE IF ArgKindOf(key) = "Flag" /\ is_eoa(q) THEN add_value(q, key, span)
             ELSE stream_error(q, "Syntax", span)

\* One round of the loop of Parser::parse (src/src/parser.rs).
parser_parse(p) ==
    eat(parse_next([p EXCEPT !.starts = Append(p.starts, p.pos)]))

\* ExprArg::parse with parse_delimited, then the value added to the argument.
ExprArg(p) ==
    LET q == consume(p) IN
    IF peek(q) = "="
    THEN IF peek(consume(q)) = "v"
         THEN [ok |-> TRUE, p |-> add_value(consume(consume(q)), peek(p), p.pos)]
         ELSE [ok |-> FALSE, p |-> stream_error(consume(q), "Syntax", q.pos + 1)]
    ELSE [ok |-> FALSE, p |-> stream_error(q, "Syntax", q.pos)]

\* FlagArg::parse, then true added to the argument.
FlagArg(p) == [ok |-> TRUE, p |-> add_value(consume(p), peek(p), p.pos)]

\* Parser::parse_once of an implementor: an argument the parser defines is
\* parsed by its kind, anything else is left in the stream ("returns false
\* if the input stream cannot be parsed").
parse_once(p) ==
    IF ArgKindOf(peek(p)) = "Expr" THEN [ExprArg(p) EXCEPT !.ok = IF @ THEN "true" ELSE "err"]
    ELSE IF ArgKindOf(peek(p)) = "Flag" THEN [FlagArg(p) EXCEPT !.ok = "true"]
    ELSE [ok |-> "false", p |-> p]

\* One round of the loop of Parser::parse (shared/src/parser.rs).
shared_parse(p) ==
    LET span == p.pos
        r == parse_once([p EXCEPT !.starts = Append(p.starts, p.pos)])
    IN  IF r.ok = "false"
        THEN IF peek(r.p) \in Idents
             THEN eat(stream_error(consume(r.p), "UnknownArgument", span))
             ELSE eat(stream_error(r.p, "InvalidInput", span))
        ELSE IF r.ok = "err" THEN eat(r.p)
        ELSE IF is_empty(r.p) THEN r.p
        ELSE IF peek(r.p) = "," THEN consume(r.p)
        ELSE eat(stream_error(r.p, "Syntax", r.p.pos))

\* Parser::next_key (slim): a token that is no identifier is consumed.
next_key(p) ==
    IF peek(p) \in Idents
    THEN [ok |-> TRUE, key |-> peek(p), at |-> p.pos, p |-> consume(p)]
    ELSE [ok |-> FALSE, key |-> "", at |-> p.pos, p |-> consume(p)]

\* Parser::next_value_with (slim): the value, then the comma that must
\* follow it unless the input ends.
next_value_with(p, kind) ==
    LET r == IF peek(p) = "="
             THEN IF peek(consume(p)) = "v"
                  THEN [ok |-> TRUE, at |-> 0, p |-> consume(consume(p))]
                  ELSE [ok |-> FALSE, at |-> p.pos + 1, p |-> consume(p)]
             ELSE IF kind = "Flag" /\ is_eoa(p)
                  THEN [ok |-> TRUE, at |-> 0, p |-> p]
                  ELSE [ok |-> FALSE, at |-> p.pos, p |-> p]
    IN  IF ~r.ok THEN r
        ELSE IF ~is_empty(r.p) /\ peek(r.p) # ","
             THEN [ok |-> FALSE, at |-> r.p.pos, p |-> consume(r.p)]
             ELSE [ok |-> TRUE, at |-> 0,
                   p |-> IF is_empty(r.p) THEN r.p ELSE consume(r.p)]

\* The closure handed to parse_all_with: the key by next_key, an unknown
\* key handed back, the value of a known one by next_value_with and added.
parse_next_with(p) ==
    LET k == next_key(p) IN
    IF ~k.ok THEN [res |-> "err", kind |-> "Syntax", at |-> k.at, p |-> k.p]
    ELSE IF ArgKindOf(k.key) = "none"
         THEN [res |-> "unknown", kind |-> "UnknownArgument", at |-> k.at, p |-> k.p]
    ELSE LET v == next_value_with(k.p, ArgKindOf(k.key)) IN
         IF v.ok THEN [res |-> "ok", kind |-> "", at |-> 0,
                       p |-> add_value(v.p, k.key, k.at)]
         ELSE [res |-> "err", kind |-> "Syntax", at |-> v.at, p |-> v.p]

\* Parser::consume_next (slim): the stream after the next comma and the
\* span of the last token eaten before it, 0 if none was.
RECURSIVE consume_next(_, _)
consume_next(p, last) ==
    IF is_empty(p) THEN [p |-> p, last |-> last]
    ELSE IF peek(p) = "," THEN [p |-> consume(p), last |-> last]
    ELSE consume_next(consume(p), p.pos)

\* One round of the loop of Parser::parse_all_with (slim).
parse_all_with(p) ==
    LET r == parse_next_with([p EXCEPT !.starts = Append(p.starts, p.pos)]) IN
    IF r.res = "ok" THEN r.p
    ELSE LET c == consume_next(stream_error(r.p, r.kind, r.at), 0) IN
         IF c.last # 0 THEN stream_error(c.p, "UnexpectedTokens", c.last) ELSE c.p

\* A parser of one generation over an input, nothing parsed yet.
InitParse ==
    /\ impl = "slim"
    /\ entries = <<>>
    /\ sources = <<>>
    /\ help_spans = <<>>
    /\ nextSpan = 1
    /\ errors = None
    /\ default_spans = <<>>
    /\ reported = NoResult
    /\ result = NoResult
    /\ unexpected = <<>>
    /\ builder = NewBuilder
    /\ message = NoMessage
    /\ resolver = NewResolver(entries)
    /\ memo = <<>>
    /\ \E g \in Parsers, input \in Inputs : stream = NewStream(g, input)

\* The loop of Parser::parse of src/src/parser.rs, one round.
ParseNext ==
    /\ stream.gen = "parser"
    /\ ~is_empty(stream)
    /\ stream' = parser_parse(stream)
    /\ UNCHANGED <<pass, builder, message, resolver, memo>>

\* The loop of Parser::parse of shared/src/parser.rs, one round.
ParseOnce ==
    /\ stream.gen = "shared"
    /\ ~is_empty(stream)
    /\ stream' = shared_parse(stream)
    /\ UNCHANGED <<pass, builder, message, resolver, memo>>

\* The loop of Parser::parse_all_with of slim/src/parser.rs, one round.
ParseAllWith ==
    /\ stream.gen = "slim"
    /\ ~is_empty(stream)
    /\ stream' = parse_all_with(stream)
    /\ UNCHANGED <<pass, builder, message, resolver, memo>>

NextParse == ParseNext \/ ParseOnce \/ ParseAllWith

SpecParse == InitParse /\ [][NextParse]_vars

\* ------------------------------------------------------------------------
\* Properties
\* ------------------------------------------------------------------------

\* A validation returned Ok or Err (it neither panicked nor overflowed).
Validated == result.status \in {"ok", "err"}

\* The number of occurrences recorded for an argument.
Occ(id) == Len(spans(sources, id))

\* The positions of the result's diagnostics of one kind.
Of(kind) == {k \in DOMAIN result.diags : result.diags[k].kind = kind}

\* The diagnostics of `kind` listing exactly `names`.
Named(kind, names) == {k \in Of(kind) : result.diags[k].names = names}

\* The diagnostics of `kind` at location `at`.
At(kind, at) == {k \in Of(kind) : result.diags[k].at = at}

ArgIds == {id \in Ids(entries) : state(entries, id).kind = "Arg"}
GroupIds == {id \in Ids(entries) : state(entries, id).kind = "Group"}

\* No help marker was recorded in the pass.
NoHelp == help_spans = <<>>

\* C1 as stated: in every validated pass, a required argument has a
\* MissingRequired diagnostic naming it iff it has zero occurrences.
C1_AsStated ==
    Validated =>
        \A id \in ArgIds :
            state(entries, id).required =>
                (Named("MissingRequired", <<id>>) # {} <=> Occ(id) = 0)

\* C1: in every validated pass without a help occurrence, a required
\* argument has a MissingRequired diagnostic naming it if and only if zero
\* occurrences of it were recorded; one or more occurrences never yield one.
C1_RequiredArg ==
    (Validated /\ NoHelp) =>
        \A id \in ArgIds :
            state(entries, id).required =>
                (Named("MissingRequired", <<id>>) # {} <=> Occ(id) = 0)

\* C1 happens: a required argument without occurrence was reported missing
\* by a pass that had other occurrences.
C1_Witness ==
    /\ Validated /\ NoHelp
    /\ \E id \in ArgIds :
        /\ state(entries, id).required
        /\ Occ(id) = 0
        /\ Named("MissingRequired", <<id>>) # {}
        /\ \E other \in ArgIds : Occ(other) > 0

\* The arguments under an entry, through nested groups.
ArgsUnder(id) == {a \in Range(visit_args(entries, id)) : a # Diverge}

\* The required rule's diagnostics for a group: MissingRequired listing the
\* group's members (or the arguments under it), away from every occurrence.
GroupMissing(g) ==
    {k \in Of("MissingRequired") :
        /\ \A a \in ArgIds : result.diags[k].at \notin Range(spans(sources, a))
        /\ Range(result.diags[k].names) \in
              {Range(state(entries, g).members), Range(visit_args(entries, g))}}

\* C2: in every validated pass without a help occurrence, a required group
\* has a MissingRequired diagnostic if and only if no argument under it
\* (through nested groups) has an occurrence; one provided member satisfies
\* the group.
C2_RequiredGroup ==
    (Validated /\ NoHelp) =>
        \A g \in GroupIds :
            state(entries, g).required =>
                (GroupMissing(g) # {} <=> \A a \in ArgsUnder(g) : Occ(a) = 0)

\* The DuplicateValue diagnostics at the occurrences of an argument.
Duplicates(id) ==
    {k \in Of("DuplicateValue") : result.diags[k].at \in Range(spans(sources, id))}

SetArgs == {id \in ArgIds : state(entries, id).action = "Set"}

NoConflictEdges == \A k \in DOMAIN entries : entries[k].conflicts = <<>>

\* The pairs (g, a, b): a and b distinct argument members of the exclusive
\* group g.
ExclusivePairs ==
    {p \in GroupIds \X ArgIds \X ArgIds :
        /\ ~state(entries, p[1]).multiple
        /\ p[2] # p[3]
        /\ p[2] \in Range(state(entries, p[1]).members)
        /\ p[3] \in Range(state(entries, p[1]).members)}

\* The ConflictingArgument diagnostics at the occurrences of a whose names
\* include b.
ConflictsAt(a, b) ==
    {k \in Of("ConflictingArgument") :
        /\ result.diags[k].at \in Range(spans(sources, a))
        /\ b \in Range(result.diags[k].names)}

\* The rule of C4 for the pairs of argument members of exclusive groups.
ExclusiveRule ==
    \A p \in ExclusivePairs :
        LET a == p[2]
            b == p[3]
        IN  IF Occ(a) >= 1 /\ Occ(b) >= 1
            THEN \A n \in DOMAIN spans(sources, a) :
                    \E k \in ConflictsAt(a, b) : result.diags[k].at = spans(sources, a)[n]
            ELSE NoConflictEdges => ConflictsAt(a, b) = {}

\* C4 as stated: in every validated pass, two argument members of an
\* exclusive group that both have an occurrence get a ConflictingArgument at
\* every occurrence of both; a pair with at most one member provided gets
\* none.
C4_AsStated == Validated => ExclusiveRule

\* C4: the same in every validated pass without a help occurrence.
C4_ExclusiveGroup == (Validated /\ NoHelp) => ExclusiveRule

\* C4 happens: two members of an exclusive group were both recorded, one of
\* them twice, and every occurrence carries the conflict.
C4_Witness ==
    /\ Validated /\ NoHelp
    /\ \E p \in ExclusivePairs :
        /\ Occ(p[2]) >= 2 /\ Occ(p[3]) >= 1
        /\ \A n \in DOMAIN spans(sources, p[2]) :
              \E k \in ConflictsAt(p[2], p[3]) : result.diags[k].at = spans(sources, p[2])[n]
        /\ ConflictsAt(p[3], p[2]) # {}

\* The pairs (a, b) of arguments with a conflicts edge declared on a
\* against b and none declared on b against a.
DeclaredOnce ==
    {p \in ArgIds \X ArgIds :
        /\ state(entries, p[1]).conflicts = << p[2] >>
        /\ state(entries, p[2]).conflicts = <<>>}

\* The ConflictingArgument diagnostics at one location naming exactly b.
ConflictNaming(at, b) ==
    {k \in Of("ConflictingArgument") :
        result.diags[k].at = at /\ result.diags[k].names = <<b>>}

\* C5: in every validated pass without a help occurrence, a conflicts edge
\* declared once on a against b, both provided, gives exactly one
\* ConflictingArgument naming b at every occurrence of a and exactly one
\* naming a at every occurrence of b: m + n diagnostics for the edge.
C5_ConflictBothSides ==
    (Validated /\ NoHelp) =>
        \A p \in DeclaredOnce :
            (Occ(p[1]) >= 1 /\ Occ(p[2]) >= 1) =>
                /\ \A n \in DOMAIN spans(sources, p[1]) :
                      Cardinality(ConflictNaming(spans(sources, p[1])[n], p[2])) = 1
                /\ \A n \in DOMAIN spans(sources, p[2]) :
                      Cardinality(ConflictNaming(spans(sources, p[2])[n], p[1])) = 1
                /\ Cardinality(ConflictsAt(p[1], p[2]) \cup ConflictsAt(p[2], p[1]))
                      = Occ(p[1]) + Occ(p[2])

\* C6: in every validated pass, a conflicts edge between two arguments of
\* which at most one is provided produces no ConflictingArgument, and the
\* pass succeeds when the edge is the only rule of the schema.
C6_ConflictOneSide ==
    Validated =>
        \A a \in ArgIds : \A b \in ArgIds :
            (b \in Range(state(entries, a).conflicts) /\ (Occ(a) = 0 \/ Occ(b) = 0)) =>
                /\ ConflictsAt(a, b) = {}
                /\ ConflictsAt(b, a) = {}
                /\ (GroupIds = {} /\ Of("MissingRequired") = {}
                    /\ Of("DuplicateValue") = {} /\ Of("Help") = {})
                        => result.status = "ok"

\* The MissingRequired diagnostics at one location naming exactly b.
MissingNaming(at, b) ==
    {k \in Of("MissingRequired") :
        result.diags[k].at = at /\ result.diags[k].names = <<b>>}

\* The rule of C7 for every requires edge between two arguments.
RequiresRule ==
    \A a \in ArgIds : \A b \in ArgIds :
        b \in Range(state(entries, a).requires) =>
            \A n \in DOMAIN spans(sources, a) :
                Cardinality(MissingNaming(spans(sources, a)[n], b))
                    = IF Occ(b) = 0 THEN 1 ELSE 0

\* C7: in every validated pass of core and of the slim checker, a requires
\* edge a -> b between arguments gives exactly one MissingRequired naming b
\* at each of the k occurrences of a when b has none, and nothing at the
\* occurrences of a when b has at least one (or a has none).
C7_Requires == (Validated /\ impl \in {"core", "slim"}) => RequiresRule

\* C7 happens: a was recorded twice, the b it requires never, and both
\* occurrences of a carry the MissingRequired naming b.
C7_Witness ==
    /\ Validated /\ impl \in {"core", "slim"}
    /\ \E a \in ArgIds : \E b \in ArgIds :
        /\ b \in Range(state(entries, a).requires)
        /\ Occ(a) >= 2 /\ Occ(b) = 0
        /\ \A n \in DOMAIN spans(sources, a) :
              Cardinality(MissingNaming(spans(sources, a)[n], b)) = 1

\* The locations of the diagnostics of a result.
Locations(r) == {r.diags[k].at : k \in DOMAIN r.diags}

\* What a new slim Checker returns for the occurrences now recorded.
FreshSlim == fail(add_all(None, slim_diags(entries, sources, <<>>, unexpected)))

\* C8: in the slim driver, a pass validated after a failed pass and its
\* reset returns what a new checker returns for the occurrences recorded
\* since (so a with the b it requires succeeds), carries no location of the
\* failed pass, and leaves no pending error or default span behind.
C8_ResetFresh ==
    (impl = "slim" /\ reported.status = "err" /\ Validated) =>
        /\ result.status = FreshSlim.status
        /\ Len(result.diags) = Len(FreshSlim.diags)
        /\ \A k \in DOMAIN result.diags :
              /\ result.diags[k].kind = FreshSlim.diags[k].kind
              /\ result.diags[k].names = FreshSlim.diags[k].names
              /\ result.diags[k].at # node =>
                    result.diags[k].at \notin Locations(reported)
        /\ errors = None
        /\ default_spans = <<>>

\* C8 happens: a pass failed because a was recorded without the b it
\* requires; after the reset a and b were recorded and the pass succeeded.
C8_Witness ==
    /\ impl = "slim"
    /\ reported.status = "err"
    /\ result.status = "ok"
    /\ \E a \in ArgIds : \E b \in ArgIds :
        /\ b \in Range(state(entries, a).requires)
        /\ Occ(a) >= 1 /\ Occ(b) >= 1
        /\ \E k \in DOMAIN reported.diags :
              reported.diags[k].kind = "MissingRequired" /\ reported.diags[k].names = <<b>>

\* Group membership is circular: some group is met again below itself.
CircularGroups == \E g \in GroupIds : Diverge \in Range(visit_args(entries, g))

\* C9: whenever validation was run on a schema with circular group
\* membership, it ended in the fatal circular-groups error: it neither
\* recursed for ever nor returned an ordinary Ok/Err result.
C9_CircularFatal ==
    (impl \in {"core", "checker"} /\ CircularGroups /\ result # NoResult)
        => result.status = "panic"

\* The diagnostics the pass about to be validated emits, in order.
Emitted ==
    CASE impl = "core" -> core_diags(fresh_supplied(memo, entries), entries, sources)
      [] impl = "checker" ->
            IF help_spans # <<>> THEN checker_help(help_spans)
            ELSE checker_rules(entries, sources, update_all(entries, sources), unexpected)
      [] impl = "runtime" -> rt_diags(SrcRuntime, entries, sources, unexpected)
      [] impl = "shared" -> rt_diags(SharedRuntime, entries, sources, unexpected)
      [] impl = "slim" -> errors.msgs \o slim_diags(entries, sources, default_spans, unexpected)

\* C10: every validation that returns gives Ok if and only if the pass
\* combined zero diagnostics, and otherwise an error holding every combined
\* diagnostic in the order combined.
C10_Aggregate ==
    [][(result = NoResult /\ result'.status \in {"ok", "err"}) =>
          /\ result'.status = "ok" <=> Emitted = <<>>
          /\ result'.diags = Emitted]_vars

\* C10 happens: a returned error holds three or more diagnostics of two
\* kinds.
C10_Witness ==
    /\ result.status = "err"
    /\ Len(result.diags) >= 3
    /\ \E j \in DOMAIN result.diags : \E k \in DOMAIN result.diags :
          result.diags[j].kind # result.diags[k].kind

\* The diagnostics of `kind` at the occurrences of argument a.
KindAt(kind, a) == {k \in Of(kind) : result.diags[k].at \in Range(spans(sources, a))}

\* The rules the recorded occurrences violate, as (kind, argument) pairs:
\* the rule's diagnostic is due at an occurrence of the argument, or names
\* the argument when it has no occurrence.
Violations ==
    {<<"MissingRequired", id>> : id \in {a \in ArgIds :
        state(entries, a).required /\ Occ(a) = 0}}
    \cup {<<"DuplicateValue", id>> : id \in {a \in SetArgs : Occ(a) >= 2}}
    \cup {<<"MissingRequired", id>> : id \in {a \in ArgIds :
        /\ Occ(a) >= 1
        /\ \E b \in ArgIds : b \in Range(state(entries, a).requires) /\ Occ(b) = 0}}
    \cup {<<"ConflictingArgument", id>> : id \in {a \in ArgIds :
        /\ Occ(a) >= 1
        /\ \E b \in ArgIds : b \in Range(state(entries, a).conflicts) /\ Occ(b) >= 1}}
    \cup {<<"ConflictingArgument", p[2]>> : p \in {q \in ExclusivePairs :
        Occ(q[2]) >= 1 /\ Occ(q[3]) >= 1}}

\* The report holds the diagnostic of a violated rule.
Reported(v) ==
    IF Occ(v[2]) = 0 THEN Named(v[1], <<v[2]>>) # {} ELSE KindAt(v[1], v[2]) # {}

\* C11 as stated: in every validated pass of core and of the checker, every
\* violated rule has its diagnostic in the report, whatever else was
\* recorded or violated.
C11_AsStated ==
    (Validated /\ impl \in {"core", "checker"}) => \A v \in Violations : Reported(v)

\* C11: in every validated pass of core and of the checker without a help
\* occurrence, every violated rule has its diagnostic in the report: no
\* violation stops the evaluation of another rule.
C11_AllChecks ==
    (Validated /\ NoHelp /\ impl \in {"core", "checker"}) =>
        \A v \in Violations : Reported(v)

\* C11 happens: one pass violated three rules of two kinds or more and
\* reported all of them.
C11_Witness ==
    /\ Validated /\ NoHelp /\ impl \in {"core", "checker"}
    /\ Cardinality(Violations) >= 3
    /\ Cardinality({v[1] : v \in Violations}) >= 2
    /\ \A v \in Violations : Reported(v)

\* The names a construction has interned.
Interned(rt) == {n \in Names : rt.ids[n] # <<>>}

\* C12: every step of a construction keeps the Id of every name interned
\* before it (re-registering returns the first Id, changes neither the map
\* nor the table), gives new names the next indices of the table, and leaves
\* the map injective, its Ids dense 0..n-1, each Id the index of the table
\* entry of its name, the map and the table of the same size.
C12_Registration ==
    [][/\ \A n \in Interned(builder) : builder'.ids[n] = builder.ids[n]
       /\ \A n \in Interned(builder') \ Interned(builder) :
             builder'.ids[n][1] >= Len(builder.states)
       /\ (builder'.last.op = "register" /\ builder'.last.name \in Interned(builder)) =>
             /\ builder'.last.id = builder.ids[builder'.last.name][1]
             /\ builder'.ids = builder.ids
             /\ builder'.states = builder.states
       /\ (builder'.last.op = "register" /\ builder'.last.name \notin Interned(builder)) =>
             /\ builder'.last.id = Len(builder.states)
             /\ Len(builder'.states) = Len(builder.states) + 1
       /\ \A n, m \in Interned(builder') :
             builder'.ids[n] = builder'.ids[m] => n = m
       /\ {builder'.ids[n][1] : n \in Interned(builder')}
             = 0 .. (Cardinality(Interned(builder')) - 1)
       /\ \A n \in Interned(builder') :
             builder'.states[builder'.ids[n][1] + 1].name = n
       /\ Len(builder'.states) = Cardinality(Interned(builder'))]_vars

\* C12 happens: three names were interned, and the last registration was of
\* a name interned before, which returned its Id.
C12_Witness ==
    /\ Cardinality(Interned(builder)) = 3
    /\ builder.last.op = "register"
    /\ builder.last.id < 2
    /\ builder.ids[builder.last.name] = <<builder.last.id>>

\* The name has a kind committed in the construction.
HasKind(rt, n) ==
    n \in Interned(rt) /\ rt.states[rt.ids[n][1] + 1].kind # "Undefined"

\* C13: a definition of a name that has a kind already ends the construction
\* with the fatal duplicate-definition error and leaves the first definition
\* as it was; a definition of a name without a kind commits it and never
\* raises the error; no step changes the kind or the references of a defined
\* entry.
C13_DuplicateDefinition ==
    [][/\ builder'.last.op = "define" =>
             LET n == builder'.last.name
             IN  IF HasKind(builder, n)
                 THEN /\ builder'.status = "duplicate"
                      /\ builder'.states[builder.ids[n][1] + 1]
                            = builder.states[builder.ids[n][1] + 1]
                 ELSE /\ builder'.status = "building"
                      /\ HasKind(builder', n)
       /\ builder'.status = "duplicate" => builder'.last.op = "define"
       /\ \A k \in DOMAIN builder.states :
             builder.states[k].kind # "Undefined" =>
                /\ builder'.states[k].kind = builder.states[k].kind
                /\ builder'.states[k].refs = builder.states[k].refs]_vars

\* C13 happens: two names were defined, then one of them again, which was
\* fatal.
C13_Witness ==
    /\ builder.status = "duplicate"
    /\ builder.last.op = "define"
    /\ Cardinality({n \in Names : HasKind(builder, n)}) >= 2

\* Some interned Id of the construction has no kind.
SomeUndefined(rt) == \E k \in DOMAIN rt.states : rt.states[k].kind = "Undefined"

\* C14: RuntimeBuilder::finish ends in the fatal missing-definition error if
\* and only if some interned Id was never defined, and every requires,
\* conflicts or member Id of a finished schema is the Id of a defined entry.
C14_MissingDefinition ==
    /\ builder.last.op = "finish" =>
          /\ builder.status = "missing" <=> SomeUndefined(builder)
          /\ builder.status = "finished" <=> ~SomeUndefined(builder)
    /\ builder.status = "missing" => builder.last.op = "finish"
    /\ builder.status = "finished" =>
          \A k \in DOMAIN builder.states :
              \A r \in Range(builder.states[k].refs) :
                  /\ r < Len(builder.states)
                  /\ builder.states[r + 1].kind # "Undefined"

\* C14 happens: an argument requires a name that was never defined, and
\* finish was fatal.
C14_Witness ==
    /\ builder.status = "missing"
    /\ \E k \in DOMAIN builder.states :
          /\ builder.states[k].kind = "Arg"
          /\ builder.states[k].refs # <<>>
          /\ builder.states[builder.states[k].refs[1] + 1].kind = "Undefined"

\* C15: every track_arg through a finished runtime with the handle of an
\* argument built by another RuntimeBuilder ends in the fatal
\* mismatched-runtime error and records no occurrence.
C15_ForeignHandle ==
    [][(builder'.last.op = "track" /\ ~builder'.last.own) =>
          /\ builder'.status = "mismatch"
          /\ builder'.states = builder.states]_vars

\* The UnexpectedArgument diagnostics at one location.
UnexpectedAt(at) == {k \in Of("UnexpectedArgument") : result.diags[k].at = at}

\* The arguments a flag on entry id covers, in the order visited: the
\* checker visits the entry through nested groups (an argument met on two
\* paths is visited twice), Runtime::finish flattens one level, the slim
\* checker is given the argument.
Covered(id) ==
    IF impl = "checker" THEN visit_args(entries, id) ELSE flat_group(entries, id)

\* How many times the flags of the pass cover argument a.
RECURSIVE FlagsOn(_, _)
FlagsOn(un, a) ==
    IF un = <<>> THEN 0
    ELSE Cardinality({n \in DOMAIN Covered(Head(un)) : Covered(Head(un))[n] = a})
         + FlagsOn(Tail(un), a)

RequiredGroups ==
    {p \in ArgIds \X GroupIds :
        /\ state(entries, p[1]).requires = << p[2] >>
        /\ Range(state(entries, p[2]).members) \subseteq ArgIds}

\* The MissingRequired diagnostics at one location listing the members of g.
MissingGroup(at, g) ==
    {k \in Of("MissingRequired") :
        /\ result.diags[k].at = at
        /\ Range(result.diags[k].names) = Range(state(entries, g).members)}

\* C17: in every validated pass of core and of Runtime::finish of src, an
\* argument a that requires a group g carries, at each of its occurrences,
\* no MissingRequired listing g's members when at least one member of g was
\* provided, and exactly one when no member was provided.
C17_RequiresGroup ==
    (Validated /\ impl \in {"core", "runtime"}) =>
        \A p \in RequiredGroups : \A n \in DOMAIN spans(sources, p[1]) :
            Cardinality(MissingGroup(spans(sources, p[1])[n], p[2]))
                = IF \E m \in Range(state(entries, p[2]).members) : Occ(m) >= 1
                  THEN 0 ELSE 1

\* Scenario A: entry 0 is `name` (required, Set), entry 1 is `alias`, which
\* conflicts with `name`; nothing else is declared.
ScenarioA ==
    /\ Len(entries) = 2
    /\ entries[1] = Arg("Set", TRUE, <<>>, <<>>)
    /\ entries[2].kind = "Arg"
    /\ entries[2].conflicts = <<0>>
    /\ entries[2].requires = <<>>
    /\ ~entries[2].required

\* A pass of core or of the checker recorded `alias` once and nothing else.
OnlyAlias ==
    /\ impl \in {"core", "checker"}
    /\ Occ(0) = 0 /\ Occ(1) = 1
    /\ NoHelp
    /\ unexpected = <<>>

\* C18 as stated: in scenario A, a pass of core or of the checker that
\* recorded only `alias`, once, validates successfully.
C18_AsStated ==
    (Validated /\ ScenarioA /\ OnlyAlias) => result.status = "ok"

\* C18: in scenario A, a pass of core or of the checker that recorded only
\* `alias`, once, fails with exactly one diagnostic, the MissingRequired
\* naming `name`, and no ConflictingArgument.
C18_ScenarioA ==
    (Validated /\ ScenarioA /\ OnlyAlias) =>
        /\ result.status = "err"
        /\ Len(result.diags) = 1
        /\ result.diags[1].kind = "MissingRequired"
        /\ result.diags[1].names = <<0>>

\* C18 happens: scenario A was validated by core with only `alias` recorded.
C18_Witness ==
    /\ Validated /\ ScenarioA /\ OnlyAlias
    /\ impl = "core"
    /\ Named("MissingRequired", <<0>>) # {}

\* The text after "one of ": every name but the last followed by ", ", then
\* "or " and the last name.
RECURSIVE OneOf(_, _)
OneOf(ns, args) ==
    IF Len(args) = 1 THEN <<"or ">> \o FmtArg(ns, args[1])
    ELSE FmtArg(ns, Head(args)) \o <<", ">> \o OneOf(ns, Tail(args))

\* The text the rule of C19 gives for a list of names.
Rendered(ns, args) ==
    CASE Len(args) = 0 -> <<>>
      [] Len(args) = 1 -> FmtArg(ns, args[1])
      [] Len(args) = 2 -> FmtArg(ns, args[1]) \o <<" or ">> \o FmtArg(ns, args[2])
      [] OTHER -> <<"one of ">> \o OneOf(ns, args)

\* The names a text shows, in order.
Shown(out) == SelectSeq(out, LAMBDA piece : piece \in ArgNames)

\* C19: the text a default formatter wrote for a list of names is the empty
\* text for no name, `a` for one, `a` or `b` for two, and for three names
\* or more "one of" followed by the names separated by commas with "or"
\* before the last; every name of the list is shown, in order.
C19_NameList ==
    message.done =>
        /\ message.out = Rendered(message.ns, message.args)
        /\ Shown(message.out) = message.args

\* C20: whenever ParserContext::finish of shared returned Ok, every Set
\* argument holds at most one value, so Arg::option and Arg::into_option
\* pass their assertion on it.
C20_SetOption ==
    (impl = "shared" /\ result.status = "ok") =>
        \A id \in SetArgs :
            /\ Len(values(sources, id)) <= 1
            /\ ~option(values(sources, id)).panic

\* C20 happens: finish returned Ok for a pass that recorded a Set argument
\* once and an Append argument twice.
C20_Witness ==
    /\ impl = "shared"
    /\ result.status = "ok"
    /\ \E id \in SetArgs : \E other \in ArgIds \ SetArgs :
          /\ Len(values(sources, id)) = 1
          /\ option(values(sources, id)).value = values(sources, id)
          /\ Occ(other) >= 2

\* Some argument under the entry has an occurrence.
ProvidedEntry(id) == \E a \in ArgsUnder(id) : Occ(a) >= 1

\* The groups marked multiple.
MultipleGroups == {g \in GroupIds : state(entries, g).multiple}

\* A rule other than the exclusivity of a group is violated by the recorded
\* occurrences: a required entry is not provided, a Set argument has two
\* occurrences or more, a provided entry lacks an entry it requires, or
\* meets a provided entry it conflicts with.
OtherRuleViolated ==
    \/ \E id \in Ids(entries) : state(entries, id).required /\ ~ProvidedEntry(id)
    \/ \E a \in SetArgs : Occ(a) >= 2
    \/ \E id \in Ids(entries) : \E t \in Range(state(entries, id).requires) :
          ProvidedEntry(id) /\ ~ProvidedEntry(t)
    \/ \E id \in Ids(entries) : \E t \in Range(state(entries, id).conflicts) :
          ProvidedEntry(id) /\ ProvidedEntry(t)

\* Two arguments are members of one exclusive group.
InExclusiveGroup(a, b) == \E p \in ExclusivePairs : p[2] = a /\ p[3] = b

\* In every validated pass of core, two argument
\* members of a group marked multiple that share no exclusive group carry no
\* ConflictingArgument naming each other when no conflicts edge is declared.
MultipleNoConflict ==
    (Validated /\ impl = "core" /\ NoConflictEdges) =>
        \A g \in MultipleGroups :
            \A a \in Range(state(entries, g).members) \cap ArgIds :
                \A b \in Range(state(entries, g).members) \cap ArgIds :
                    (a # b /\ ~InExclusiveGroup(a, b)) => ConflictsAt(a, b) = {}

\* C21: in every validated pass of core, the members of a group marked
\* multiple carry no ConflictingArgument on account of the group, and a pass
\* over a schema whose groups are all multiple succeeds when the recorded
\* occurrences violate no other rule.
C21_MultipleGroup ==
    /\ MultipleNoConflict
    /\ (Validated /\ impl = "core" /\ MultipleGroups # {}
        /\ MultipleGroups = GroupIds /\ ~OtherRuleViolated)
            => result.status = "ok"

AppendArgs == ArgIds \ SetArgs

\* C22: in every validated pass, of any generation, an argument with action
\* Append carries no DuplicateValue diagnostic at any of its occurrences,
\* whether it has none, one, two or more; in core, a pass that recorded
\* nothing but occurrences of Append arguments reports no DuplicateValue at
\* all.
C22_AppendUnbounded ==
    Validated =>
        /\ \A a \in AppendArgs : Duplicates(a) = {}
        /\ (impl = "core" /\ \A s \in SetArgs : Occ(s) = 0) => Of("DuplicateValue") = {}

\* C22 happens: core validated an Append argument recorded as many times as
\* a pass may record, and no occurrence of it carries a DuplicateValue.
C22_Witness ==
    /\ Validated /\ impl = "core"
    /\ \E a \in AppendArgs : Occ(a) = MaxSpans /\ Duplicates(a) = {}

\* The states a resolved entry may hold.
Resolved == {"Empty", "Provided", "ProvidedMany"}

\* The loop of check over all indices has finished without a panic.
LoopFinished ==
    /\ resolver.phase \in {"update", "done"}
    /\ resolver.stack = <<>>
    /\ resolver.i = Len(entries)

\* The step-wise resolution stores what update_all computes, and the pass
\* returns what checker_check returns.
ResolveAgrees ==
    /\ LoopFinished => resolver.values = update_all(entries, sources)
    /\ resolver.phase = "done" =>
          result = checker_check(entries, sources, help_spans, unexpected)
    /\ resolver.phase = "panic" =>
          /\ result = Aborted("panic")
          /\ checker_check(entries, sources, help_spans, unexpected) = Aborted("panic")

\* C23: in every step of a pass of the checker, the state of an entry moves
\* only from None to Busy (a group entering its member loop), from None to a
\* resolved state (an argument), or from Busy to a resolved state (a group
\* leaving its member loop); a resolved state is never changed again; and
\* when the loop over all indices has finished without a panic, every entry
\* is Empty, Provided or ProvidedMany, none None or Busy.
C23_Resolution ==
    [][/\ \A k \in DOMAIN resolver.values :
             \/ resolver'.values[k] = resolver.values[k]
             \/ /\ resolver.values[k] = "None"
                /\ resolver'.values[k] = "Busy"
                /\ entries[k].kind = "Group"
             \/ /\ resolver.values[k] = "None"
                /\ resolver'.values[k] \in Resolved
                /\ entries[k].kind = "Arg"
             \/ /\ resolver.values[k] = "Busy"
                /\ resolver'.values[k] \in Resolved
       /\ \A k \in DOMAIN resolver.values :
             resolver.values[k] \in Resolved => resolver'.values[k] = resolver.values[k]
       /\ LoopFinished' => \A k \in DOMAIN resolver'.values : resolver'.values[k] \in Resolved
      ]_vars

\* C23 happens: the loop finished over a schema with a group nested in a
\* group, leaving a group ProvidedMany, an entry Provided and an entry Empty.
C23_Witness ==
    /\ LoopFinished
    /\ \E g \in GroupIds : \E h \in GroupIds :
          /\ h \in Range(state(entries, g).members)
          /\ resolver.values[g + 1] = "ProvidedMany"
    /\ \E k \in DOMAIN resolver.values : resolver.values[k] = "Provided"
    /\ \E k \in DOMAIN resolver.values : resolver.values[k] = "Empty"

\* The positions of the direct members of a group whose stored state is
\* Provided or ProvidedMany.
ProvidedMembers(g) ==
    {k \in DOMAIN state(entries, g).members :
        state_provided(resolver.values[state(entries, g).members[k] + 1])}

\* C24: when the loop of check has finished, the state stored for an
\* argument is Empty, Provided or ProvidedMany for 0, 1, 2 or more recorded
\* occurrences, and the state stored for a group is Empty, Provided or
\* ProvidedMany for 0, 1, 2 or more direct members whose state is Provided
\* or ProvidedMany; a nested group is one member, however many of its own
\* members are provided.
C24_FromCount ==
    LoopFinished =>
        /\ \A a \in ArgIds :
              resolver.values[a + 1] =
                  IF Occ(a) = 0 THEN "Empty"
                  ELSE IF Occ(a) = 1 THEN "Provided" ELSE "ProvidedMany"
        /\ \A g \in GroupIds :
              resolver.values[g + 1] =
                  IF Cardinality(ProvidedMembers(g)) = 0 THEN "Empty"
                  ELSE IF Cardinality(ProvidedMembers(g)) = 1 THEN "Provided"
                  ELSE "ProvidedMany"
        /\ \A g \in GroupIds : \A h \in GroupIds :
              (state(entries, g).members = <<h>>) => resolver.values[g + 1] # "ProvidedMany"

\* C24 happens: a group whose only member is a group is Provided while the
\* nested group is ProvidedMany, two of its arguments being provided.
C24_Witness ==
    /\ LoopFinished
    /\ \E g \in GroupIds : \E h \in GroupIds :
          /\ state(entries, g).members = <<h>>
          /\ resolver.values[g + 1] = "Provided"
          /\ resolver.values[h + 1] = "ProvidedMany"
          /\ Cardinality({a \in ArgsUnder(h) : Occ(a) >= 1}) = 2

\* The memo of a checker that has answered nothing yet.
NoAnswers == [k \in DOMAIN entries |-> "none"]

\* What a first check of a runtime holding the occurrences now recorded
\* returns.
FirstCheck == core_check(NoAnswers, entries, sources)

\* C25: every check of core, whatever checks and recordings came before it
\* on the same runtime, starts from a memo without answers and returns what
\* a first check returns for the occurrences recorded so far; an entry an
\* earlier check found not supplied and that was recorded since is found
\* supplied, and no MissingRequired names it.
C25_PassLocal ==
    [][(impl = "core" /\ result = NoResult /\ result' # NoResult) =>
          /\ result' = FirstCheck
          /\ \A a \in ArgIds :
                (/\ memo # <<>>
                 /\ memo[Len(memo)][a + 1] = "false"
                 /\ Occ(a) >= 1
                 /\ result'.status \in {"ok", "err"}) =>
                    /\ memo'[Len(memo')][a + 1] = "true"
                    /\ \A k \in DOMAIN result'.diags :
                          ~(/\ result'.diags[k].kind = "MissingRequired"
                            /\ result'.diags[k].at = node
                            /\ result'.diags[k].names = <<a>>)]_vars

\* C25 happens: a check failed because a required argument was missing, the
\* argument was recorded, and the next check of the same runtime succeeded.
C25_Witness ==
    /\ impl = "core"
    /\ Len(memo) >= 2
    /\ result.status = "ok"
    /\ \E a \in ArgIds :
          /\ state(entries, a).required
          /\ memo[Len(memo) - 1][a + 1] = "false"
          /\ memo[Len(memo)][a + 1] = "true"
          /\ Occ(a) >= 1

\* The rule lists of the checker, in the order check walks them.
Exclusives == 1
RequiredRule == 2
Requirements == 3
Conflicts == 4
Unacceptables == 5

\* The argument lists an entry may be named by in a diagnostic.
NamesOf(id) == visit_args(entries, id)

\* The arguments whose occurrences include a location.
ArgsAt(at) == {a \in ArgIds : at \in Range(spans(sources, a))}

\* Diagnostic d reports arguments under x against entry y, as the rule of an
\* edge or of a pair of members does: in core at an occurrence under x and
\* naming the arguments under y, in the checker at an occurrence under one
\* of the two and naming one argument under the other.
Against(d, x, y) ==
    IF impl = "core"
    THEN ArgsAt(d.at) \cap ArgsUnder(x) # {} /\ d.names = NamesOf(y)
    ELSE \/ ArgsAt(d.at) \cap ArgsUnder(x) # {}
            /\ \E b \in ArgsUnder(y) : d.names = <<b>>
         \/ ArgsAt(d.at) \cap ArgsUnder(y) # {}
            /\ \E b \in ArgsUnder(x) : d.names = <<b>>

\* The (rule, entry) pairs a diagnostic may come from: the rule list and
\* the entry it was declared on (for a flagged entry, the position of the
\* flag).
Keys(d) ==
    {<<Exclusives, a>> : a \in {x \in SetArgs :
        d.kind = "DuplicateValue" /\ x \in ArgsAt(d.at)}}
    \cup {<<Exclusives, g>> : g \in {x \in GroupIds :
        /\ d.kind = "ConflictingArgument"
        /\ ~state(entries, x).multiple
        /\ \E i \in DOMAIN state(entries, x).members :
           \E j \in DOMAIN state(entries, x).members :
              i # j /\ Against(d, state(entries, x).members[i],
                               state(entries, x).members[j])}}
    \cup {<<RequiredRule, id>> : id \in {x \in Ids(entries) :
        /\ d.kind = "MissingRequired" /\ d.at = node
        /\ state(entries, x).required /\ d.names = NamesOf(x)}}
    \cup {<<Requirements, id>> : id \in {x \in Ids(entries) :
        /\ d.kind = "MissingRequired"
        /\ ArgsAt(d.at) \cap ArgsUnder(x) # {}
        /\ \E t \in Range(state(entries, x).requires) : d.names = NamesOf(t)}}
    \cup {<<Conflicts, id>> : id \in {x \in Ids(entries) :
        /\ d.kind = "ConflictingArgument"
        /\ \E t \in Range(state(entries, x).conflicts) : Against(d, x, t)}}
    \cup {<<Unacceptables, k>> : k \in {x \in DOMAIN unexpected :
        /\ d.kind = "UnexpectedArgument"
        /\ ArgsAt(d.at) \cap ArgsUnder(unexpected[x]) # {}}}

\* The order of two keys: by entry alone, or by rule list and then entry.
KeyLe(p, q, major) ==
    IF major = "entry" THEN p[2] <= q[2]
    ELSE p[1] < q[1] \/ (p[1] = q[1] /\ p[2] <= q[2])

\* The diagnostics can be given keys that never decrease along the sequence,
\* starting from `prev`.
RECURSIVE Grouped(_, _, _)
Grouped(ds, prev, major) ==
    IF ds = <<>> THEN TRUE
    ELSE LET c == {p \in Keys(Head(ds)) : KeyLe(prev, p, major)}
         IN  /\ c # {}
             /\ Grouped(Tail(ds), CHOOSE x \in c : \A y \in c : KeyLe(x, y, major), major)

\* C26 as stated: the diagnostics of every validated pass of core and of
\* the checker are grouped by owning entry in ascending Id order.
C26_AsStated ==
    (Validated /\ impl \in {"core", "checker"}) =>
        Grouped(result.diags, <<0, 0>>, "entry")

\* C26: the diagnostics of every validated pass without a help occurrence
\* are, in core, grouped by owning entry in ascending Id order and, in the
\* checker, grouped by rule list (exclusives, required, requirements,
\* conflicts, not allowed) and within a rule list by ascending Id (flagged
\* entries in the order flagged); in both the sequence is the one the
\* schema and the recorded occurrences determine.
C26_Order ==
    (Validated /\ NoHelp /\ impl \in {"core", "checker"}) =>
        /\ Grouped(result.diags, <<0, 0>>, IF impl = "core" THEN "entry" ELSE "rule")
        /\ result.diags = Emitted

\* C26 happens: the checker reported an entry of a higher Id, from an
\* earlier rule list, before an entry of a lower Id.
C26_Witness ==
    /\ Validated /\ NoHelp
    /\ impl = "checker"
    /\ Len(result.diags) >= 2
    /\ ~Grouped(result.diags, <<0, 0>>, "entry")
    /\ Grouped(result.diags, <<0, 0>>, "rule")

\* The position of the comma that ends the argument beginning at s, or the
\* position after the last token.
RECURSIVE SegEnd(_, _)
SegEnd(input, s) ==
    IF s > Len(input) \/ input[s] = "," THEN s ELSE SegEnd(input, s + 1)

\* An argument begins at t: at the first token or right after a comma.
ArgStart(input, t) == t \in DOMAIN input /\ (t = 1 \/ input[t - 1] = ",")

\* The tokens from t to the next comma are a known argument in full:
\* a = v, or the flag f alone.
KnownArgAt(input, t) ==
    \/ /\ t + 2 <= Len(input)
       /\ input[t] = "a" /\ input[t + 1] = "=" /\ input[t + 2] = "v"
       /\ SegEnd(input, t) = t + 3
    \/ /\ t <= Len(input)
       /\ input[t] = "f"
       /\ SegEnd(input, t) = t + 1

\* The rounds of the parse loop that met an unknown key, by their index.
UnknownRounds ==
    IF stream.gen = "none" THEN {}
    ELSE { k \in DOMAIN stream.starts : stream.input[stream.starts[k]] = "x" }

RecordedAt(t) ==
    Cardinality({ j \in DOMAIN stream.added :
        stream.added[j] = [key |-> stream.input[t], at |-> t] }) = 1

\* The cursor after round k.
CursorAfter(k) ==
    IF k < Len(stream.starts) THEN stream.starts[k + 1] ELSE stream.pos

UnknownKeyRound ==
    \A k \in UnknownRounds :
        LET s == stream.starts[k]
            e == SegEnd(stream.input, s)
        IN  /\ Cardinality({ j \in DOMAIN stream.errors :
                    stream.errors[j] = [kind |-> "UnknownArgument", at |-> s] }) = 1
            /\ \A j \in DOMAIN stream.added : stream.added[j].at \notin s..e
            /\ CursorAfter(k) = IF e > Len(stream.input) THEN e ELSE e + 1
            /\ \A n \in DOMAIN stream.starts :
                  (n > k /\ KnownArgAt(stream.input, stream.starts[n]))
                      => RecordedAt(stream.starts[n])

\* An unknown key with a value was met and the argument after its comma
\* was recorded.
UnknownKeyThenRecorded ==
    /\ stream.gen # "none"
    /\ is_empty(stream)
    /\ \E k \in UnknownRounds :
          /\ stream.starts[k] < Len(stream.input)
          /\ stream.input[stream.starts[k] + 1] # ","
          /\ \E j \in DOMAIN stream.added : stream.added[j].at > stream.starts[k]

\* C28: in the slim driver, once an item was checked, whatever the result,
\* the only step is the reset: the result goes to the caller, no error stays
\* pending in the checker, and the occurrence list of every argument is
\* empty when the next item starts.
C28_ClearedPerItem ==
    [][ (impl = "slim" /\ result # NoResult) =>
            /\ result' = NoResult
            /\ reported' = result
            /\ errors' = None
            /\ \A k \in DOMAIN sources' : sources'[k] = <<>> ]_vars

\* An item failed with a diagnostic at one of its occurrences, and the next
\* item starts with every occurrence list empty.
C28_Witness ==
    /\ impl = "slim"
    /\ result = NoResult
    /\ reported.status = "err"
    /\ \E k \in DOMAIN reported.diags : reported.diags[k].at # node
    /\ \A k \in DOMAIN sources : sources[k] = <<>>
    /\ nextSpan > 2

\* The entry the next call of update_state is for: the index of the loop of
\* check, or the next member of the group whose member loop is running; -1
\* when no call is left or the running member loop is at its end.
NextVisited ==
    IF resolver.stack = <<>>
    THEN IF resolver.i < Len(entries) THEN resolver.i ELSE -1
    ELSE LET top == resolver.stack[Len(resolver.stack)]
             ms == state(entries, top.i).members
         IN  IF top.k <= Len(ms) THEN ms[top.k] ELSE -1

\* The groups that list an entry as a member.
GroupsOf(e) == { g \in GroupIds : e \in Range(state(entries, g).members) }

\* C29: the resolution of the checker panics only on a schema whose group
\* membership is circular, and a call of update_state for an entry that is
\* already resolved changes no stored state and does not panic.
C29_CycleOnly ==
    /\ [](resolver.phase = "panic" => CircularGroups)
    /\ [][ (NextVisited # -1 /\ resolver.values[NextVisited + 1] \in Resolved) =>
              /\ resolver'.values = resolver.values
              /\ resolver'.phase # "panic" ]_vars

\* A schema without a cycle was resolved to the end although an entry of
\* two groups, both nested in a third, was met more than once.
C29_Witness ==
    /\ LoopFinished
    /\ ~CircularGroups
    /\ \E e \in Ids(entries) : \E g1 \in GroupsOf(e) : \E g2 \in GroupsOf(e) :
          /\ g1 # g2
          /\ GroupsOf(g1) \cap GroupsOf(g2) # {}

\* The pairs (a, b) of arguments whose conflict is declared on both: b is
\* the only conflict declared on a and a the only one declared on b.
DeclaredTwice ==
    {p \in ArgIds \X ArgIds :
        /\ p[1] < p[2]
        /\ state(entries, p[1]).conflicts = << p[2] >>
        /\ state(entries, p[2]).conflicts = << p[1] >>}

\* The schema without the conflicts declared on b.
DeclaredOn(es, b) == [es EXCEPT ![b + 1].conflicts = <<>>]

\* What the validation of this pass returns over another schema.
ResultOver(es) ==
    CASE impl = "checker" -> checker_check(es, sources, help_spans, unexpected)
      [] impl = "runtime" -> finish(SrcRuntime, es, sources, unexpected)
      [] impl = "shared" -> finish(SharedRuntime, es, sources, unexpected)
      [] OTHER -> result

\* How often a diagnostic occurs in a report.
Copies(diags, d) == Cardinality({k \in DOMAIN diags : diags[k] = d})

\* C30: in every validated pass of the checker and of the runtime of
\* src/src, a conflict declared on both of its arguments gives the report
\* of the same schema with the conflict declared on the first only (every
\* diagnostic as often), and no occurrence carries more than one
\* ConflictingArgument naming the other argument.
C30_ConflictDeclaredTwice ==
    (Validated /\ impl \in {"checker", "runtime"}) =>
        \A p \in DeclaredTwice :
            LET one == ResultOver(DeclaredOn(entries, p[2]))
            IN  /\ result.status = one.status
                /\ \A k \in DOMAIN result.diags :
                      Copies(result.diags, result.diags[k])
                          = Copies(one.diags, result.diags[k])
                /\ \A k \in DOMAIN one.diags :
                      Copies(result.diags, one.diags[k]) = Copies(one.diags, one.diags[k])
                /\ (Occ(p[1]) = 1 /\ Occ(p[2]) = 1) =>
                      /\ Cardinality(ConflictNaming(spans(sources, p[1])[1], p[2])) <= 1
                      /\ Cardinality(ConflictNaming(spans(sources, p[2])[1], p[1])) <= 1

====
